---- MODULE Spec2Model ----
(***************************************************************************)
(* A model of the lattice Boltzmann engine of leaves_bm (src/lbm.rs,       *)
(* src/math.rs, src/lbm/iteration.rs): the D3Q19 lattice, the four phases  *)
(* of Simulation::step, Simulation::initialize and the tracer particles.   *)
(*                                                                         *)
(* Numbers.  The code computes in f32.  The model computes in exact        *)
(* rational arithmetic extended with the three non-finite values of IEEE   *)
(* 754: a number is a record [n |-> numerator, d |-> denominator] in       *)
(* lowest terms with d >= 0, and d = 0 encodes +inf (n = 1), -inf (n = -1) *)
(* and NaN (n = 0).  Rounding is not modelled, and a zero is always the    *)
(* positive zero.                                                          *)
(***************************************************************************)
EXTENDS Integers, Sequences, FiniteSets, TLC

\* ------------------------------------------------------------------------
\* Float (math.rs:8) and its arithmetic
\* ------------------------------------------------------------------------
Abs(i) == IF i < 0 THEN -i ELSE i

Sgn(i) == IF i < 0 THEN -1 ELSE IF i = 0 THEN 0 ELSE 1

RECURSIVE Gcd(_, _)
Gcd(a, b) == IF b = 0 THEN a ELSE Gcd(b, a % b)

\* The number n/d in lowest terms; d = 0 gives the non-finite value of the
\* sign of n.
Norm(n, d) ==
    IF d = 0 THEN [n |-> Sgn(n), d |-> 0]
    ELSE IF n = 0 THEN [n |-> 0, d |-> 1]
    ELSE LET g == Gcd(Abs(n), Abs(d))
             s == Sgn(d)
         IN  [n |-> s * (n \div g), d |-> s * (d \div g)]

R(i) == [n |-> i, d |-> 1]

Q(n, d) == Norm(n, d)

Zero == R(0)

One == R(1)

NaN == [n |-> 0, d |-> 0]

PosInf == [n |-> 1, d |-> 0]

NegInf == [n |-> -1, d |-> 0]

IsFinite(a) == a.d # 0

IsNaN(a) == a.d = 0 /\ a.n = 0

FAdd(a, b) ==
    IF a.d = 0 /\ b.d = 0
    THEN (IF a = b THEN a ELSE NaN)
    ELSE IF a.d = 0 \/ b.d = 0
    THEN Norm(a.n * b.d + b.n * a.d, 0)
    ELSE LET g == Gcd(a.d, b.d)
         IN  Norm(a.n * (b.d \div g) + b.n * (a.d \div g), (a.d \div g) * b.d)

FNeg(a) == [n |-> -a.n, d |-> a.d]

FSub(a, b) == FAdd(a, FNeg(b))

\* The product, with the common factors removed before multiplying.
FMul(a, b) ==
    IF a.d = 0 \/ b.d = 0 \/ a.n = 0 \/ b.n = 0
    THEN Norm(Sgn(a.n) * Sgn(b.n), IF a.d = 0 \/ b.d = 0 THEN 0 ELSE 1)
    ELSE LET g1 == Gcd(Abs(a.n), b.d)
             g2 == Gcd(Abs(b.n), a.d)
         IN  [n |-> (a.n \div g1) * (b.n \div g2), d |-> (a.d \div g2) * (b.d \div g1)]

\* x/0 is NaN for x = 0 and the infinity of the sign of x otherwise; x/inf
\* is 0 for finite x.
FDiv(a, b) ==
    LET s == IF b.n < 0 THEN -1 ELSE 1
    IN  FMul(a, [n |-> s * b.d, d |-> Abs(b.n)])

\* a < b on floats: false whenever an operand is NaN.
FLess(a, b) ==
    /\ ~IsNaN(a)
    /\ ~IsNaN(b)
    /\ a # b
    /\ IF a.d = 0 THEN a.n < 0
       ELSE IF b.d = 0 THEN b.n > 0
       ELSE a.n * b.d < b.n * a.d

\* f32::floor
FFloor(a) == IF a.d = 0 THEN a ELSE R(a.n \div a.d)

\* The integer part of a finite float (rounding toward zero).
Trunc(a) == Sgn(a.n) * (Abs(a.n) \div a.d)

I32Max == 2147483647

I32Min == -I32Max - 1

\* `f as i32`: truncation toward zero, saturating, NaN to 0.
AsI32(a) ==
    IF a.d = 0
    THEN (IF a.n = 0 THEN 0 ELSE IF a.n > 0 THEN I32Max ELSE I32Min)
    ELSE Trunc(a)

\* The least k with i <= 2^k.
RECURSIVE CeilLog2(_)
CeilLog2(i) == IF i <= 1 THEN 0 ELSE 1 + CeilLog2((i + 1) \div 2)

\* The f32 sum r + m of a negative r and a positive whole m rounds to m when
\* -r is at most half the spacing of the floats just below m, which is
\* 2^-(25 - CeilLog2(m)) for the 24-bit significand of f32 (a tie goes to
\* m, whose last bit is even).
RoundsToModulus(r, m) ==
    /\ r.n < 0
    /\ m.d = 1
    /\ m.n >= 1
    /\ CeilLog2(m.n) <= 25
    /\ -r.n <= r.d \div (2 ^ (25 - CeilLog2(m.n)))

\* f32::rem_euclid: r = self % rhs (the remainder has the sign of self),
\* then r + |rhs| when r < 0.  That sum is an f32: it is |rhs| itself when r
\* is too small to tell from zero next to |rhs|; the other sums are held
\* exactly.
FRemEuclid(a, m) ==
    IF a.d = 0 \/ m.d = 0 \/ m.n = 0
    THEN (IF a.d # 0 /\ m.d = 0 /\ m.n # 0
          THEN (IF a.n < 0 THEN PosInf ELSE a)
          ELSE NaN)
    ELSE LET q == FDiv(a, m)
             t == R(Trunc(q))
             r == FSub(a, FMul(m, t))
             absm == [n |-> Abs(m.n), d |-> m.d]
         IN  IF FLess(r, Zero)
             THEN (IF RoundsToModulus(r, absm) THEN absm ELSE FAdd(r, absm))
             ELSE r

\* A variant of lerp that mixes by (mix - 1) / mix.
lerpCanonical(a, b, mix) ==
    FAdd(FMul(b, FDiv(FSub(mix, One), mix)), FMul(a, FSub(One, FDiv(FSub(mix, One), mix))))

\* math.rs:10-12
lerp(a, b, mix) == FAdd(FMul(b, mix), FMul(a, FSub(One, mix)))

\* ------------------------------------------------------------------------
\* Vec3, Int3 and Bound3 (math.rs)
\* ------------------------------------------------------------------------
\* A Vec3 is a triple of floats, an Int3 a triple of integers.
Vec3(x, y, z) == <<x, y, z>>

Vec3_ZERO == <<Zero, Zero, Zero>>

Int3_ZERO == <<0, 0, 0>>

\* math.rs:84-86
dot(a, b) == FAdd(FAdd(FMul(a[1], b[1]), FMul(a[2], b[2])), FMul(a[3], b[3]))

\* math.rs:91-96, Float * Vec3
VScale(f, v) == <<FMul(f, v[1]), FMul(f, v[2]), FMul(f, v[3])>>

\* math.rs:97-102, Vec3 / Float
VDiv(v, f) == <<FDiv(v[1], f), FDiv(v[2], f), FDiv(v[3], f)>>

\* math.rs:103-108
VAdd(a, b) == <<FAdd(a[1], b[1]), FAdd(a[2], b[2]), FAdd(a[3], b[3])>>

\* math.rs:109-114
VSub(a, b) == <<FSub(a[1], b[1]), FSub(a[2], b[2]), FSub(a[3], b[3])>>

\* math.rs:42-48
cross(a, b) ==
    Vec3(FSub(FMul(a[2], b[3]), FMul(a[3], b[2])),
         FSub(FMul(a[3], b[1]), FMul(a[1], b[3])),
         FSub(FMul(a[1], b[2]), FMul(a[2], b[1])))

\* math.rs:267-275; a Matrix3 is the triple of its rows.
from_columns(col0, col1, col2) ==
    <<<<col0[1], col1[1], col2[1]>>,
      <<col0[2], col1[2], col2[2]>>,
      <<col0[3], col1[3], col2[3]>>>>

\* math.rs:276-278
det2x2(a, b, c, d) == FSub(FMul(a, d), FMul(b, c))

\* math.rs:279-301; rows[i][j] of the source is m[i + 1][j + 1].
det(m) ==
    FAdd(FSub(FMul(m[1][1], det2x2(m[2][2], m[2][3], m[3][2], m[3][3])),
              FMul(m[2][1], det2x2(m[1][2], m[1][3], m[3][2], m[3][3]))),
         FMul(m[3][1], det2x2(m[1][2], m[1][3], m[2][2], m[2][3])))

\* math.rs:362-370, f32 * Matrix3
MScale(f, m) == [i \in 1..3 |-> [j \in 1..3 |-> FMul(f, m[i][j])]]

\* math.rs:350-361, &Matrix3 * Vec3
MApply(m, v) ==
    Vec3(FAdd(FAdd(FMul(m[1][1], v[1]), FMul(m[1][2], v[2])), FMul(m[1][3], v[3])),
         FAdd(FAdd(FMul(m[2][1], v[1]), FMul(m[2][2], v[2])), FMul(m[2][3], v[3])),
         FAdd(FAdd(FMul(m[3][1], v[1]), FMul(m[3][2], v[2])), FMul(m[3][3], v[3])))

\* math.rs:302-325, Matrix3::inverse
inverse(m) ==
    MScale(FDiv(One, det(m)),
           <<<<det2x2(m[2][2], m[2][3], m[3][2], m[3][3]),
               det2x2(m[1][3], m[1][2], m[3][3], m[3][2]),
               det2x2(m[1][2], m[1][3], m[2][2], m[2][3])>>,
             <<det2x2(m[2][3], m[2][1], m[3][3], m[3][1]),
               det2x2(m[1][1], m[1][3], m[3][1], m[3][3]),
               det2x2(m[1][3], m[1][1], m[2][3], m[2][1])>>,
             <<det2x2(m[2][1], m[2][2], m[3][1], m[3][2]),
               det2x2(m[1][2], m[1][1], m[3][2], m[3][1]),
               det2x2(m[1][1], m[1][2], m[2][1], m[2][2])>>>>)

\* math.rs:203-207, From<Int3> for Vec3
IntoVec3(i) == <<R(i[1]), R(i[2]), R(i[3])>>

\* math.rs:197-202
Int3Add(a, b) == <<a[1] + b[1], a[2] + b[2], a[3] + b[3]>>

\* A variant of Vec3::wrap that returns the vector as it is.
Vec3_unwrapped(v, dm) == v

\* math.rs:22-29, Vec3::wrap
Vec3_wrap(v, dm) ==
    <<FRemEuclid(v[1], R(dm[1])), FRemEuclid(v[2], R(dm[2])), FRemEuclid(v[3], R(dm[3]))>>

\* A Result<Bound3, ()>: Ok carries the validated index.
Ok(v) == [ok |-> TRUE, v |-> v]

Err == [ok |-> FALSE, v |-> <<0, 0, 0>>]

\* A variant of TryFrom<(usize, usize, usize)> that accepts a coordinate equal
\* to its bound.
TryFromUsizeInclusive(t, dm) ==
    IF t[1] > dm[1] \/ t[2] > dm[2] \/ t[3] > dm[3] THEN Err ELSE Ok(t)

\* math.rs:233-243, TryFrom<(usize, usize, usize)>; the coordinates are usize
TryFromUsize(t, dm) ==
    IF t[1] >= dm[1] \/ t[2] >= dm[2] \/ t[3] >= dm[3] THEN Err ELSE Ok(t)

\* math.rs:245-257, TryFrom<Int3>
TryFromInt3(t, dm) ==
    IF t[1] < 0 \/ t[2] < 0 \/ t[3] < 0 THEN Err
    ELSE IF t[1] >= dm[1] \/ t[2] >= dm[2] \/ t[3] >= dm[3] THEN Err
    ELSE Ok(t)

\* math.rs:218-220
Bound3_new(x, y, z, dm) == TryFromUsize(<<x, y, z>>, dm)

\* A variant of Int3::wrap that clamps to the grid in place of wrapping.
Int3_clamp(t, dm) ==
    LET clamp(v, n) == IF v < 0 THEN 0 ELSE IF v >= n THEN n - 1 ELSE v
    IN  Bound3_new(clamp(t[1], dm[1]), clamp(t[2], dm[2]), clamp(t[3], dm[3]), dm)

\* A variant of Int3::wrap that reduces with the remainder operator %, whose
\* result has the sign of the coordinate; a negative i32 cast to usize is
\* beyond every grid.
Int3_wrapRemainder(t, dm) ==
    LET rem(v, n) == IF v < 0 THEN -((-v) % n) ELSE v % n
        usize(v) == IF v < 0 THEN I32Max ELSE v
    IN  Bound3_new(usize(rem(t[1], dm[1])), usize(rem(t[2], dm[2])),
                   usize(rem(t[3], dm[3])), dm)

\* math.rs:183-190, Int3::wrap up to the unwrap; i32::rem_euclid by a
\* positive modulus is the mathematical modulus.
Int3_wrap(t, dm) == Bound3_new(t[1] % dm[1], t[2] % dm[2], t[3] % dm[3], dm)

\* ------------------------------------------------------------------------
\* The D3Q19 tables of lbm.rs
\* ------------------------------------------------------------------------
\* lbm.rs:205-210
sign(v) == IF v % 2 = 0 THEN 1 ELSE -1

\* A variant of Lattice::direction that takes both signs of a two-axis
\* direction from i.
directionOneSign(i) ==
    IF i = 0 THEN <<0, 0, 0>>
    ELSE IF i < 7
    THEN (IF i < 3 THEN <<sign(i), 0, 0>>
          ELSE IF i < 5 THEN <<0, sign(i), 0>>
          ELSE <<0, 0, sign(i)>>)
    ELSE IF i < 11 THEN <<sign(i), sign(i), 0>>
    ELSE IF i < 15 THEN <<sign(i), 0, sign(i)>>
    ELSE <<0, sign(i), sign(i)>>

\* lbm.rs:204-238, Lattice::direction
direction(i) ==
    IF i = 0 THEN <<0, 0, 0>>
    ELSE IF i < 7
    THEN LET a == sign(i)
         IN  IF i < 3 THEN <<a, 0, 0>>
             ELSE IF i < 5 THEN <<0, a, 0>>
             ELSE <<0, 0, a>>
    ELSE LET a == sign(i)
             b == sign(i \div 2)
         IN  IF i < 11 THEN <<a, b, 0>>
             ELSE IF i < 15 THEN <<a, 0, b>>
             ELSE <<0, a, b>>

\* A variant of Lattice::weights with the weights of the one-axis and the
\* two-axis directions exchanged.
weightsExchanged(i) ==
    FDiv(One, IF i = 0 THEN R(3) ELSE IF i < 7 THEN R(36) ELSE R(18))

\* lbm.rs:241-248, Lattice::weights
weights(i) ==
    FDiv(One, IF i = 0 THEN R(3) ELSE IF i < 7 THEN R(18) ELSE R(36))

\* ------------------------------------------------------------------------
\* The D3Q19 tables of lbm/iteration.rs.  A LatticeIndex is <<"Q0", 0>>,
\* <<"Q1", i>> or <<"Q2", i>>.
\* ------------------------------------------------------------------------
\* iteration.rs:17-22
LatticeIndex_sign(v) == IF v % 2 = 0 THEN 1 ELSE -1

\* iteration.rs:16-48, LatticeIndex::direction
LatticeIndex_direction(ix) ==
    LET i == ix[2]
    IN  IF ix[1] = "Q0" THEN <<0, 0, 0>>
        ELSE IF ix[1] = "Q1"
        THEN LET a == LatticeIndex_sign(i)
             IN  IF i < 2 THEN <<a, 0, 0>>
                 ELSE IF i < 4 THEN <<0, a, 0>>
                 ELSE <<0, 0, a>>
        ELSE LET a == LatticeIndex_sign(i)
                 b == LatticeIndex_sign(i \div 2)
             IN  IF i < 4 THEN <<a, b, 0>>
                 ELSE IF i < 8 THEN <<a, 0, b>>
                 ELSE <<0, a, b>>

\* iteration.rs:50-56, LatticeIndex::weight
LatticeIndex_weight(ix) ==
    IF ix[1] = "Q0" THEN FDiv(One, R(3))
    ELSE IF ix[1] = "Q1" THEN FDiv(One, R(18))
    ELSE FDiv(One, R(36))

\* ------------------------------------------------------------------------
\* Bounds and inputs
\* ------------------------------------------------------------------------
\* The largest number of step() calls in a behaviour.
MaxSteps == 2

\* The largest numerator or denominator of a fluid value from which a
\* step() is started: the numbers of the model are 32-bit.
MaxMagnitude == 150

\* The largest number of initialize() calls in a behaviour.
MaxInits == 1

\* The grids: the const generics <X, Y, Z> of Simulation (lbm.rs:5).  They
\* include axes of size 1 (a cell is its own neighbour), of size 2 (the two
\* neighbours of a cell along the axis coincide) and of size 3, and a grid
\* with more than one cell along each axis.
GridSizes == {<<1, 1, 1>>, <<1, 3, 1>>, <<3, 2, 1>>, <<2, 2, 2>>}

\* The cells of a grid, and the cells in the order of the loops
\* `for x in 0..X { for y in 0..Y { for z in 0..Z {` (lbm.rs:43-45).
Cells(dm) == (0..(dm[1] - 1)) \X (0..(dm[2] - 1)) \X (0..(dm[3] - 1))

LoopCells(dm) ==
    [i \in 1..(dm[1] * dm[2] * dm[3]) |->
        <<(i - 1) \div (dm[2] * dm[3]), ((i - 1) \div dm[3]) % dm[2], (i - 1) % dm[3]>>]

\* ------------------------------------------------------------------------
\* Lattice (lbm.rs:167-202).  A lattice maps the name of each of its 19
\* arrays, <<"q0", 0>>, <<"q1", i>> or <<"q2", i>>, to a PacketDistribution
\* or Field: a function from the cells to floats.
\* ------------------------------------------------------------------------
Arrays ==
    {<<"q0", 0>>} \cup {<<"q1", i>> : i \in 0..5} \cup {<<"q2", i>> : i \in 0..11}

\* A variant of the default lattice that holds in each slot the weight of
\* the slot's direction.
Lattice_defaultWeights(dm) ==
    [a \in Arrays |->
        [c \in Cells(dm) |->
            IF a[1] = "q0" THEN Q(1, 3) ELSE IF a[1] = "q1" THEN Q(1, 18) ELSE Q(1, 36)]]

\* lbm.rs:173-183, Lattice::default with PacketDistribution::default
\* (lbm.rs:256-262)
Lattice_default(dm) ==
    [a \in Arrays |-> [c \in Cells(dm) |-> IF a[1] = "q0" THEN One ELSE Zero]]

\* once(q0).chain(q1.iter()).chain(q2.iter()), lbm.rs:197-199
ChainArrays ==
    <<<<"q0", 0>>>> \o [i \in 1..6 |-> <<"q1", i - 1>>] \o [i \in 1..12 |-> <<"q2", i - 1>>]

\* lbm.rs:196-202, Lattice::iter: the items (array, direction, weight)
iter ==
    [k \in 1..Len(ChainArrays) |->
        [dist |-> ChainArrays[k], dir |-> direction(k - 1), weight |-> weights(k - 1)]]

\* A variant of the chain of iter_mut that visits q1 backwards.
ChainArraysMutBackwards ==
    <<<<"q0", 0>>>> \o [i \in 1..6 |-> <<"q1", 6 - i>>] \o [i \in 1..12 |-> <<"q2", i - 1>>]

\* once(q0).chain(q1.iter_mut()).chain(q2.iter_mut()), lbm.rs:189-191
ChainArraysMut ==
    <<<<"q0", 0>>>> \o [i \in 1..6 |-> <<"q1", i - 1>>] \o [i \in 1..12 |-> <<"q2", i - 1>>]

\* lbm.rs:186-194, Lattice::iter_mut
iter_mut ==
    [k \in 1..Len(ChainArraysMut) |->
        [dist |-> ChainArraysMut[k], dir |-> direction(k - 1), weight |-> weights(k - 1)]]

\* iteration.rs:84-104, Lattice::iter
iteration_iter ==
    <<[dist |-> <<"q0", 0>>, dir |-> LatticeIndex_direction(<<"Q0", 0>>),
       weight |-> LatticeIndex_weight(<<"Q0", 0>>)]>>
    \o [i \in 1..6 |->
           [dist |-> <<"q1", i - 1>>, dir |-> LatticeIndex_direction(<<"Q1", i - 1>>),
            weight |-> LatticeIndex_weight(<<"Q1", i - 1>>)]]
    \o [i \in 1..12 |->
           [dist |-> <<"q2", i - 1>>, dir |-> LatticeIndex_direction(<<"Q2", i - 1>>),
            weight |-> LatticeIndex_weight(<<"Q2", i - 1>>)]]

\* iteration.rs:60-82, Lattice::iter_mut
iteration_iter_mut ==
    <<[dist |-> <<"q0", 0>>, dir |-> LatticeIndex_direction(<<"Q0", 0>>),
       weight |-> LatticeIndex_weight(<<"Q0", 0>>)]>>
    \o [i \in 1..6 |->
           [dist |-> <<"q1", i - 1>>, dir |-> LatticeIndex_direction(<<"Q1", i - 1>>),
            weight |-> LatticeIndex_weight(<<"Q1", i - 1>>)]]
    \o [i \in 1..12 |->
           [dist |-> <<"q2", i - 1>>, dir |-> LatticeIndex_direction(<<"Q2", i - 1>>),
            weight |-> LatticeIndex_weight(<<"Q2", i - 1>>)]]

\* The position at which an iterator yields array a.
PositionOf(it, a) == CHOOSE k \in 1..Len(it) : it[k].dist = a

\* ------------------------------------------------------------------------
\* Initializer policies (lbm.rs:12-26).  A policy maps InitArgs
\* [loc, dir, weight] to an Option<f32>.
\* ------------------------------------------------------------------------
Some(v) == [some |-> TRUE, v |-> v]

None == [some |-> FALSE, v |-> Zero]

\* lbm.rs:17-25, From<(usize, usize, usize, Int3, Float)> for InitArgs
InitArgs(x, y, z, dir, weight) == [loc |-> <<x, y, z>>, dir |-> dir, weight |-> weight]

\* bool::then_some of a magnitude that is tested with `magnitude > 0.0`
ThenSomePositive(m) == IF FLess(Zero, m) THEN Some(m) ELSE None

\* bin/app/main.rs:108-121, init::wave, with X_COUNT the X of the grid
init_wave(args, dm) ==
    LET x == args.loc[1]
        x_f == FSub(R(x), FDiv(R(dm[1]), R(2)))
        face == Vec3(IF FLess(Zero, x_f) THEN R(-1) ELSE One, Zero, Zero)
        magnitude == FDiv(dot(IntoVec3(args.dir), face), R(20))
    IN  IF x # 0 /\ x + 1 # dm[1] THEN None ELSE ThenSomePositive(magnitude)

\* bin/app/main.rs:122-147, init::circular
init_circular(args, dm) ==
    LET x == args.loc[1]
        y == args.loc[2]
        z == args.loc[3]
        x_f == R(x - (dm[1] \div 2))
        y_f == R(y - (dm[2] \div 2))
        magnitude == FMul(dot(IntoVec3(args.dir), Vec3(FNeg(y_f), x_f, Zero)), args.weight)
    IN  IF ~(dm[1] \div 4 <= x /\ x < (dm[1] * 3) \div 4) THEN None
        ELSE IF ~(dm[2] \div 4 <= y /\ y < (dm[2] * 3) \div 4) THEN None
        ELSE IF z # 0 THEN None
        ELSE ThenSomePositive(magnitude)

\* bin/app/main.rs:148-163, init::point
init_point(args, dm) ==
    IF args.loc[1] # dm[1] \div 2 \/ args.loc[2] # dm[2] \div 2 \/ args.loc[3] # dm[3] \div 2
    THEN None
    ELSE IF args.dir = Int3_ZERO THEN Some(R(70)) ELSE None

\* The policies a caller passes to initialize: the three of the host and
\*   "none"    no opinion anywhere,
\*   "origin"  Some(1.0) for cell (0,0,0) and the zero direction only,
\*   "void"    Some(0.0) everywhere,
\*   "jet"     Some(weight) everywhere, and Some(1/2) for the +x direction
\*             of the cells with x = 0.
\*   "beam"    Some(20.0) for cell (0,0,0) and the +x direction only,
\*   "hole"    Some(0.0) for every direction of cell (0,0,0) only.
Policies == {"wave", "circular", "point", "none", "origin", "void", "jet", "beam", "hole"}

Policy(p, args, dm) ==
    CASE p = "wave" -> init_wave(args, dm)
      [] p = "circular" -> init_circular(args, dm)
      [] p = "point" -> init_point(args, dm)
      [] p = "none" -> None
      [] p = "origin" ->
            IF args.loc = <<0, 0, 0>> /\ args.dir = Int3_ZERO THEN Some(One) ELSE None
      [] p = "void" -> Some(Zero)
      [] p = "jet" ->
            IF args.loc[1] = 0 /\ args.dir = <<1, 0, 0>> THEN Some(Q(1, 2))
            ELSE Some(args.weight)
      [] p = "beam" ->
            IF args.loc = <<0, 0, 0>> /\ args.dir = <<1, 0, 0>> THEN Some(R(20)) ELSE None
      [] p = "hole" -> IF args.loc = <<0, 0, 0>> THEN Some(Zero) ELSE None

\* ------------------------------------------------------------------------
\* Constants (lbm.rs:343-360) and Particle (lbm.rs:362-379)
\* ------------------------------------------------------------------------
\* speed_of_sound is held as its square: the code uses it only in c * c
\* (lbm.rs:77-78), and the canonical value 1/sqrt(3) is irrational.
SpeedOfSound(sq) == [sq |-> sq]

\* lbm.rs:78, c * c
SquareOf(c) == c.sq

\* lbm.rs:351-360, Constants::default
Constants_default ==
    [time_relaxation_constant |-> Q(5, 4),
     speed_of_sound |-> SpeedOfSound(Q(1, 3)),
     particle_mass |-> One,
     particle_velocity_decay |-> Q(19, 20)]

\* The constants a host passes to new: the default, one that replaces every
\* value by its equilibrium, and one that keeps every value.
ConstantsChoices ==
    {Constants_default,
     [time_relaxation_constant |-> One, speed_of_sound |-> SpeedOfSound(One),
      particle_mass |-> R(2), particle_velocity_decay |-> Q(1, 2)],
     [time_relaxation_constant |-> Zero, speed_of_sound |-> SpeedOfSound(Q(1, 3)),
      particle_mass |-> One, particle_velocity_decay |-> One]}

Particle(position, velocity) == [position |-> position, velocity |-> velocity]

\* The particle lists a host passes to new: a particle near the far x face
\* that moves out of the grid, together with a particle at rest between the
\* cells and a particle at rest on the last cell.
ParticleLists(dm) ==
    {<<Particle(Vec3(FSub(R(dm[1]), Q(1, 10)), Zero, Zero), Vec3(One, Zero, Zero)),
       Particle(Vec3(Q(1, 2), Q(1, 4), Q(3, 4)), Vec3_ZERO),
       Particle(Vec3(R(dm[1] - 1), R(dm[2] - 1), R(dm[3] - 1)), Vec3_ZERO)>>}

\* ------------------------------------------------------------------------
\* State
\* ------------------------------------------------------------------------
VARIABLES
    dims,           \* <<X, Y, Z>>, the const generics of the Simulation
    distributions,  \* Simulation::distributions, a lattice
    velocity,       \* Simulation::velocity, a Vec3 for each cell
    density,        \* Simulation::density, a float for each cell
    constants,      \* Simulation::constants
    particles,      \* Simulation::particles, a sequence of Particle
    collided,       \* collided_packets, the local of step() (lbm.rs:59)
    trace,          \* the phases the step() in progress (or last finished) ran
    steps,          \* the number of step() calls begun
    inits,          \* the number of initialize() calls made
    calls,          \* the policy calls of an initialize that no step() has followed
    panicked,       \* an unwrap() of a failed index conversion has panicked
    twin,           \* a second simulation, built and called alike (between calls)
    converted,      \* the index conversion the host has called, with its result
    intersected,    \* the Triangle::intersect_proportion call made, with its result
    controls,       \* the host's SimControls resource
    frame           \* the host's frame: where step_simulation is, and its timer

vars ==
    <<dims, distributions, velocity, density, constants, particles, collided, trace,
      steps, inits, calls, panicked, twin,
      converted, intersected, controls, frame>>

\* The value of collided_packets while no step() is running.
NoLattice == <<>>

\* The value of converted before the host calls a conversion.
NoConversion == <<>>

\* The value of intersected before intersect_proportion is called.
NoIntersection == <<>>

\* The values of controls and frame where the library is used without the
\* host application.
NoControls == <<>>

NoFrame == <<>>

\* A variant of step() that moves the particles before it recomputes the
\* fields.
StepOrderParticlesFirst == <<"collide", "stream", "stream_particles", "calc_conditions">>

\* lbm.rs:58-63, the body of Simulation::step: its calls in order
StepOrder == <<"collide", "stream", "calc_conditions", "stream_particles">>

\* The number of phases the step() in progress has run; 0 between calls.
Position == IF Len(trace) = Len(StepOrder) THEN 0 ELSE Len(trace)

Idle == Position = 0

\* The phase that step() runs next.
NextPhase == StepOrder[Position + 1]

Small(a) == Abs(a.n) <= MaxMagnitude /\ a.d <= MaxMagnitude

\* The numbers of the fluid at cell c are within MaxMagnitude.
SmallCell(c) ==
    /\ \A a \in Arrays : Small(distributions[a][c])
    /\ Small(density[c])
    /\ \A j \in 1..3 : Small(velocity[c][j])

\* The numbers of particle i are within MaxMagnitude.
SmallParticle(i) ==
    \A j \in 1..3 : Small(particles[i].position[j]) /\ Small(particles[i].velocity[j])

\* The velocity field holds zeros and non-finite numbers only.
StillField ==
    {c \in Cells(dims) : ~(\A j \in 1..3 : velocity[c][j].n = 0 \/ velocity[c][j].d = 0)} = {}

\* The sums of particle and field numbers stay in range: the numbers of the
\* particles are within MaxMagnitude, or the field adds nothing to them.
ParticlesInRange ==
    IF StillField THEN TRUE ELSE {i \in 1..Len(particles) : ~SmallParticle(i)} = {}

\* The numbers of the fluid are within MaxMagnitude, and those of the
\* particles in range.
SmallFluid ==
    /\ {c \in Cells(dims) : ~SmallCell(c)} = {}
    /\ ParticlesInRange

\* Every number of the velocity field is within MaxMagnitude.
SmallVelocity ==
    {c \in Cells(dims) : ~(\A j \in 1..3 : Small(velocity[c][j]))} = {}

\* A phase runs when it is next in step(); the first one starts a call.  The
\* phases that add numbers of different cells start from small numbers only.
\* step() has been called and has not returned: always possible for a
\* caller of the library, and in the host between the call of
\* bin/app/main.rs:213 and its return.
StepCalled ==
    IF frame = NoFrame THEN TRUE
    ELSE frame.at = "step" /\ ~(Idle /\ steps > frame.begun)

PhaseEnabled(op) ==
    /\ ~panicked
    /\ StepCalled
    /\ NextPhase = op
    /\ Idle => steps < MaxSteps /\ SmallFluid
    /\ op = "stream_particles" => SmallVelocity /\ ParticlesInRange

TraceAfter(op) == IF Idle THEN <<op>> ELSE Append(trace, op)

StepsAfter == IF Idle THEN steps + 1 ELSE steps

\* An unwrap() in the loops over 0..X, 0..Y, 0..Z fails (lbm.rs:46, 73, 123).
LoopPanics(dm) ==
    \E i \in 1..Len(LoopCells(dm)) : ~TryFromUsize(LoopCells(dm)[i], dm).ok

\* ------------------------------------------------------------------------
\* Simulation::calc_conditions (lbm.rs:117-147)
\* ------------------------------------------------------------------------
\* lbm.rs:124-132: the items (packet, packet * dir) of the arrays in the
\* order of iter(), reduced from the first by componentwise addition.
RECURSIVE ReduceConditions(_, _, _)
ReduceConditions(lat, c, k) ==
    LET packet == lat[iter[k].dist][c]
        e == <<packet, VScale(packet, IntoVec3(iter[k].dir))>>
    IN  IF k = 1 THEN e
        ELSE CHOOSE r \in {<<FAdd(acc[1], e[1]), VAdd(acc[2], e[2])>> :
                                acc \in {ReduceConditions(lat, c, k - 1)}} : TRUE

\* lbm.rs:136, the density stored for cell c
CellDensity(lat, c) == ReduceConditions(lat, c, Len(iter))[1]

\* A variant of the velocity of a cell that stores the momentum undivided.
CellMomentum(lat, c) == ReduceConditions(lat, c, Len(iter))[2]

\* A variant of the velocity of a cell that skips the division when the
\* density is zero and stores the zero vector.
CellVelocityGuarded(lat, c) ==
    LET r == ReduceConditions(lat, c, Len(iter))
    IN  IF r[1] = Zero THEN Vec3_ZERO ELSE VDiv(r[2], r[1])

\* lbm.rs:133 and 137, the velocity stored for cell c
CellVelocity(lat, c) ==
    LET r == ReduceConditions(lat, c, Len(iter))
    IN  VDiv(r[2], r[1])

\* ------------------------------------------------------------------------
\* Simulation::initialize (lbm.rs:39-54)
\* ------------------------------------------------------------------------
\* A variant of the value initialize writes that falls back to 0.0 for
\* every direction.
InitialValueZero(p, x, y, z, dir, weight, dm) ==
    LET o == Policy(p, InitArgs(x, y, z, dir, weight), dm)
    IN  IF o.some THEN o.v ELSE Zero

\* lbm.rs:47-48, the value written to a cell of the array of direction dir
InitialValue(p, x, y, z, dir, weight, dm) ==
    LET o == Policy(p, InitArgs(x, y, z, dir, weight), dm)
    IN  IF o.some THEN o.v ELSE IF dir = Int3_ZERO THEN One ELSE Zero

\* The policy calls of initialize in order, each with the Option it returned:
\* for each item of iter_mut(), the cells in loop order.
InitializeCalls(p, dm) ==
    LET n == Len(LoopCells(dm))
    IN  [j \in 1..(Len(iter_mut) * n) |->
            LET k == ((j - 1) \div n) + 1
                c == LoopCells(dm)[((j - 1) % n) + 1]
                args == InitArgs(c[1], c[2], c[3], iter_mut[k].dir, iter_mut[k].weight)
            IN  [args |-> args, ret |-> Policy(p, args, dm)]]

\* ------------------------------------------------------------------------
\* Simulation::collide (lbm.rs:65-98)
\* ------------------------------------------------------------------------
\* A variant of the equilibrium without the term of the squared speed.
EquilibriumNoKinetic(dir, weight, rho, flow_velocity, cst) ==
    LET dm == dot(flow_velocity, IntoVec3(dir))
        c2 == SquareOf(cst.speed_of_sound)
        series ==
            FAdd(FAdd(One, FDiv(dm, c2)),
                 FDiv(FMul(dm, dm), FMul(FMul(R(2), c2), c2)))
    IN  FMul(FMul(weight, rho), series)

\* lbm.rs:74-83, the equilibrium term of a direction at a cell
Equilibrium(dir, weight, rho, flow_velocity, cst) ==
    LET dm == dot(flow_velocity, IntoVec3(dir))
        c2 == SquareOf(cst.speed_of_sound)
        series ==
            FSub(FAdd(FAdd(One, FDiv(dm, c2)),
                      FDiv(FMul(dm, dm), FMul(FMul(R(2), c2), c2))),
                 FDiv(dot(flow_velocity, flow_velocity), FMul(R(2), c2)))
    IN  FMul(FMul(weight, rho), series)

\* lbm.rs:88-92, the value collide writes for a direction at a cell
CollideCell(old, dir, weight, rho, flow_velocity, cst) ==
    lerp(old, Equilibrium(dir, weight, rho, flow_velocity, cst), cst.time_relaxation_constant)

\* lbm.rs:66-97: new_packets starts as Lattice::default(), and the k-th
\* array of new_packets.iter_mut() is filled from the k-th item of
\* self.distributions.iter().
CollideLattice(lat, rho, vel, cst, dm) ==
    [a \in Arrays |->
        IF \E k \in 1..Len(iter) : k <= Len(iter_mut) /\ iter_mut[k].dist = a
        THEN LET src == iter[PositionOf(iter_mut, a)]
             IN  [c \in Cells(dm) |->
                     CollideCell(lat[src.dist][c], src.dir, src.weight, rho[c], vel[c], cst)]
        ELSE Lattice_default(dm)[a]]

\* ------------------------------------------------------------------------
\* Simulation::stream (lbm.rs:100-115)
\* ------------------------------------------------------------------------
\* A variant of the writes of stream that moves against the direction:
\* target[loc] = new_dist[(loc + direction).wrap()].
StreamArrayAgainst(target, new_dist, dir, dm, i) ==
    [c \in DOMAIN target |-> new_dist[Int3_wrap(Int3Add(c, dir), dm).v]]

\* A variant of the writes of stream that leaves out the first cell of the
\* loops.
RECURSIVE StreamArrayShort(_, _, _, _, _)
StreamArrayShort(target, new_dist, dir, dm, i) ==
    IF i <= 1 THEN target
    ELSE LET loc == LoopCells(dm)[i]
             to == Int3_wrap(Int3Add(loc, dir), dm).v
             from == TryFromInt3(loc, dm).v
         IN  [StreamArrayShort(target, new_dist, dir, dm, i - 1) EXCEPT ![to] = new_dist[from]]

\* lbm.rs:105-112: the writes target[(loc + direction).wrap()] = new_dist[loc]
\* for the first i cells of the loops, in order, into the array target.
RECURSIVE StreamArray(_, _, _, _, _)
StreamArray(target, new_dist, dir, dm, i) ==
    IF i = 0 THEN target
    ELSE LET loc == LoopCells(dm)[i]
             to == Int3_wrap(Int3Add(loc, dir), dm).v
             from == TryFromInt3(loc, dm).v
         IN  [StreamArray(target, new_dist, dir, dm, i - 1) EXCEPT ![to] = new_dist[from]]

\* lbm.rs:101-114: the k-th array of self.distributions.iter_mut() receives
\* the k-th array of collided_packets.iter(), moved along its direction.
StreamLattice(lat, packets, dm) ==
    [a \in Arrays |->
        IF \E k \in 1..Len(iter) : k <= Len(iter_mut) /\ iter_mut[k].dist = a
        THEN LET src == iter[PositionOf(iter_mut, a)]
             IN  StreamArray(lat[a], packets[src.dist], src.dir, dm, Len(LoopCells(dm)))
        ELSE lat[a]]

\* An unwrap() of stream fails (lbm.rs:109-110, math.rs:189).
StreamPanics(dm) ==
    \E k \in 1..Len(iter) :
        \E i \in 1..Len(LoopCells(dm)) :
            \/ ~TryFromInt3(LoopCells(dm)[i], dm).ok
            \/ ~Int3_wrap(Int3Add(LoopCells(dm)[i], iter[k].dir), dm).ok

\* ------------------------------------------------------------------------
\* Field::lerp_get (lbm.rs:301-340) and Simulation::stream_particles
\* (lbm.rs:149-164)
\* ------------------------------------------------------------------------
\* lbm.rs:311-326, bounds: the two weighted coordinates of an axis
Weighted(coord, weight) == [coord |-> coord, weight |-> weight]

\* A variant of bounds whose second coordinate is floor + 1, not reduced.
boundsUnreduced(coord, wrap) ==
    LET floor == FFloor(coord)
        floor_dist == FSub(coord, floor)
        fl == AsI32(floor) % wrap
    IN  <<Weighted(fl, FSub(One, floor_dist)), Weighted(fl + 1, floor_dist)>>

\* A variant of bounds that gives each of the two coordinates the weight of
\* the other.
boundsExchanged(coord, wrap) ==
    LET floor == FFloor(coord)
        floor_dist == FSub(coord, floor)
        fl == AsI32(floor) % wrap
    IN  <<Weighted(fl, floor_dist), Weighted((fl + 1) % wrap, FSub(One, floor_dist))>>

bounds(coord, wrap) ==
    LET floor == FFloor(coord)
        floor_dist == FSub(coord, floor)
        fl == AsI32(floor) % wrap
    IN  <<Weighted(fl, FSub(One, floor_dist)), Weighted((fl + 1) % wrap, floor_dist)>>

\* lbm.rs:327-329: the 8 corners in the order of the flat_maps
Corners(location, dm) ==
    [j \in 1..8 |->
        <<bounds(location[1], dm[1])[((j - 1) \div 4) + 1],
          bounds(location[2], dm[2])[(((j - 1) \div 2) % 2) + 1],
          bounds(location[3], dm[3])[((j - 1) % 2) + 1]>>]

\* A variant of the term of a corner whose weight leaves out the z axis.
CornerTermPlanar(field, w, dm) ==
    LET weight == FMul(w[1].weight, w[2].weight)
        coord == Bound3_new(w[1].coord, w[2].coord, w[3].coord, dm).v
    IN  VScale(weight, field[coord])

\* lbm.rs:330-338, the term of a corner, for a field of Vec3
CornerTerm(field, w, dm) ==
    LET weight == FMul(FMul(w[1].weight, w[2].weight), w[3].weight)
        coord == Bound3_new(w[1].coord, w[2].coord, w[3].coord, dm).v
    IN  VScale(weight, field[coord])

\* math.rs:121-125, Sum for Vec3: the terms reduced from the first
RECURSIVE SumVec3(_, _)
SumVec3(terms, j) ==
    IF j = 0 THEN Vec3_ZERO
    ELSE IF j = 1 THEN terms[1]
    ELSE VAdd(SumVec3(terms, j - 1), terms[j])

lerp_get(field, location, dm) ==
    LET cs == Corners(location, dm)
    IN  SumVec3([j \in 1..8 |-> CornerTerm(field, cs[j], dm)], 8)

\* The unwrap() of lerp_get fails (lbm.rs:335).
LerpGetPanics(location, dm) ==
    \E j \in 1..8 :
        LET w == Corners(location, dm)[j]
        IN  ~Bound3_new(w[1].coord, w[2].coord, w[3].coord, dm).ok

\* A variant of the update of a particle that moves it by the velocity it
\* had before the update.
AdvectParticleOldVelocity(particle, vel, cst, dm) ==
    LET flow_velocity == lerp_get(vel, particle.position, dm)
        v == VAdd(VScale(cst.particle_velocity_decay, particle.velocity),
                  VDiv(flow_velocity, cst.particle_mass))
    IN  Particle(Vec3_wrap(VAdd(particle.position, particle.velocity), dm), v)

\* lbm.rs:152-157, one particle
AdvectParticle(particle, vel, cst, dm) ==
    LET flow_velocity == lerp_get(vel, particle.position, dm)
        v == VAdd(VScale(cst.particle_velocity_decay, particle.velocity),
                  VDiv(flow_velocity, cst.particle_mass))
    IN  Particle(Vec3_wrap(VAdd(particle.position, v), dm), v)

\* ------------------------------------------------------------------------
\* A second simulation given the same calls (lbm.rs:29-63)
\* ------------------------------------------------------------------------
\* The fields and particles of a simulation and the collided_packets of its
\* step() in progress, as one value.
SimState(dist, rho, vel, ps, packets) ==
    [distributions |-> dist, density |-> rho, velocity |-> vel, particles |-> ps,
     collided |-> packets]

\* The simulation new() builds.
Fresh(dm, ps) ==
    SimState(Lattice_default(dm), [c \in Cells(dm) |-> One],
             [c \in Cells(dm) |-> Vec3_ZERO], ps, NoLattice)

\* The simulation st after initialize with the policy p.
Initialized(st, p, dm) ==
    LET filled ==
            [a \in Arrays |->
                LET it == iter_mut[PositionOf(iter_mut, a)]
                IN  [c \in Cells(dm) |->
                        InitialValue(p, c[1], c[2], c[3], it.dir, it.weight, dm)]]
    IN  SimState(filled, [c \in Cells(dm) |-> CellDensity(filled, c)],
                 [c \in Cells(dm) |-> CellVelocity(filled, c)], st.particles, st.collided)

\* A variant of the phases in which collide adds one unit of mass per
\* particle of the simulation to the density it reads at cell (0,0,0).
PhasedCoupled(st, op, cst, dm) ==
    IF op = "collide"
    THEN [st EXCEPT !.collided =
            CollideLattice(st.distributions,
                           [st.density EXCEPT ![Int3_ZERO] = FAdd(@, R(Len(st.particles)))],
                           st.velocity, cst, dm)]
    ELSE IF op = "stream"
    THEN [st EXCEPT !.distributions = StreamLattice(st.distributions, st.collided, dm)]
    ELSE IF op = "calc_conditions"
    THEN [st EXCEPT !.density = [c \in Cells(dm) |-> CellDensity(st.distributions, c)],
                    !.velocity = [c \in Cells(dm) |-> CellVelocity(st.distributions, c)]]
    ELSE [st EXCEPT !.particles =
            [i \in 1..Len(st.particles) |->
                AdvectParticle(st.particles[i], st.velocity, cst, dm)]]

\* The simulation st after the phase op of its step().
Phased(st, op, cst, dm) ==
    CASE op = "collide" ->
            [st EXCEPT !.collided =
                CollideLattice(st.distributions, st.density, st.velocity, cst, dm)]
      [] op = "stream" ->
            [st EXCEPT !.distributions = StreamLattice(st.distributions, st.collided, dm)]
      [] op = "calc_conditions" ->
            [st EXCEPT !.density = [c \in Cells(dm) |-> CellDensity(st.distributions, c)],
                       !.velocity = [c \in Cells(dm) |-> CellVelocity(st.distributions, c)]]
      [] op = "stream_particles" ->
            [st EXCEPT !.particles =
                [i \in 1..Len(st.particles) |->
                    AdvectParticle(st.particles[i], st.velocity, cst, dm)]]

\* The second simulation runs the phase the first one runs; collided_packets
\* is dropped when step() returns.
TwinAfter(op) ==
    LET st == Phased(twin, op, constants, dims)
    IN  IF Len(TraceAfter(op)) = Len(StepOrder) THEN [st EXCEPT !.collided = NoLattice]
        ELSE st

\* ------------------------------------------------------------------------
\* The operations of Simulation (lbm.rs:28-165)
\* ------------------------------------------------------------------------
Simulation_new(dm, cst, ps, ps2) ==
    /\ dims = dm
    /\ distributions = Lattice_default(dm)
    /\ velocity = [c \in Cells(dm) |-> Vec3_ZERO]
    /\ density = [c \in Cells(dm) |-> One]
    /\ constants = cst
    /\ particles = ps
    /\ collided = NoLattice
    /\ trace = <<>>
    /\ steps = 0
    /\ inits = 0
    /\ calls = <<>>
    /\ panicked = FALSE
    /\ twin = Fresh(dm, ps2)
    /\ converted = NoConversion
    /\ intersected = NoIntersection

\* A simulation and a second one, built by a caller of the library.
NewPair(dm, cst, ps, ps2) ==
    /\ Simulation_new(dm, cst, ps, ps2)
    /\ controls = NoControls
    /\ frame = NoFrame

\* lbm.rs:29-37, Simulation::new; the second simulation is built from the
\* same arguments.
New(dm, cst, ps) == NewPair(dm, cst, ps, ps)

Init ==
    \E dm \in GridSizes :
        \E cst \in ConstantsChoices :
            \E ps \in ParticleLists(dm) : New(dm, cst, ps)

\* A variant of initialize that keeps the value a slot holds where the
\* policy has no opinion.
InitializeOverlay(p) ==
    /\ ~panicked
    /\ Idle
    /\ frame = NoFrame
    /\ inits < MaxInits
    /\ inits' = inits + 1
    /\ IF LoopPanics(dims)
       THEN /\ panicked' = TRUE
            /\ UNCHANGED <<distributions, velocity, density, calls>>
       ELSE LET filled ==
                    [a \in Arrays |->
                        LET it == iter_mut[PositionOf(iter_mut, a)]
                        IN  [c \in Cells(dims) |->
                                LET ret == Policy(p, InitArgs(c[1], c[2], c[3], it.dir,
                                                              it.weight), dims)
                                IN  IF ret.some THEN ret.v ELSE distributions[a][c]]]
            IN  /\ distributions' = filled
                /\ density' = [c \in Cells(dims) |-> CellDensity(filled, c)]
                /\ velocity' = [c \in Cells(dims) |-> CellVelocity(filled, c)]
                /\ calls' = InitializeCalls(p, dims)
                /\ panicked' = FALSE
    /\ trace' = <<>>
    /\ twin' = Initialized(twin, p, dims)
    /\ UNCHANGED <<dims, converted, intersected, controls, frame, constants, particles, collided, steps>>

Initialize(p) ==
    /\ ~panicked
    /\ Idle
    /\ frame = NoFrame
    /\ inits < MaxInits
    /\ inits' = inits + 1
    /\ IF LoopPanics(dims)
       THEN /\ panicked' = TRUE
            /\ UNCHANGED <<distributions, velocity, density, calls>>
       ELSE LET filled ==
                    [a \in Arrays |->
                        LET it == iter_mut[PositionOf(iter_mut, a)]
                        IN  [c \in Cells(dims) |->
                                InitialValue(p, c[1], c[2], c[3], it.dir, it.weight, dims)]]
            IN  /\ distributions' = filled
                /\ density' = [c \in Cells(dims) |-> CellDensity(filled, c)]
                /\ velocity' = [c \in Cells(dims) |-> CellVelocity(filled, c)]
                /\ calls' = InitializeCalls(p, dims)
                /\ panicked' = FALSE
    /\ trace' = <<>>
    /\ twin' = Initialized(twin, p, dims)
    /\ UNCHANGED <<dims, converted, intersected, controls, frame, constants, particles, collided, steps>>

\* A variant of collide that writes its result into self.distributions.
CollideInPlace ==
    /\ PhaseEnabled("collide")
    /\ collided' = CollideLattice(distributions, density, velocity, constants, dims)
    /\ distributions' = collided'
    /\ panicked' = FALSE
    /\ trace' = TraceAfter("collide")
    /\ steps' = StepsAfter
    /\ calls' = <<>>
    /\ twin' = TwinAfter("collide")
    /\ UNCHANGED <<dims, converted, intersected, controls, frame, velocity, density, constants, particles, inits>>

\* A variant of collide that draws the constants it relaxes with at random
\* on every call.
CollideRandomConstants ==
    /\ PhaseEnabled("collide")
    /\ \E cst \in ConstantsChoices :
          collided' = CollideLattice(distributions, density, velocity, cst, dims)
    /\ panicked' = FALSE
    /\ trace' = TraceAfter("collide")
    /\ steps' = StepsAfter
    /\ calls' = <<>>
    /\ twin' = TwinAfter("collide")
    /\ UNCHANGED <<dims, converted, intersected, controls, frame, distributions, velocity, density, constants,
                   particles, inits>>

Collide ==
    /\ PhaseEnabled("collide")
    /\ IF LoopPanics(dims)
       THEN /\ panicked' = TRUE
            /\ UNCHANGED collided
       ELSE /\ collided' = CollideLattice(distributions, density, velocity, constants, dims)
            /\ panicked' = FALSE
    /\ trace' = TraceAfter("collide")
    /\ steps' = StepsAfter
    /\ calls' = <<>>
    /\ twin' = TwinAfter("collide")
    /\ UNCHANGED <<dims, converted, intersected, controls, frame, distributions, velocity, density, constants,
                   particles, inits>>

Stream ==
    /\ PhaseEnabled("stream")
    /\ IF StreamPanics(dims)
       THEN /\ panicked' = TRUE
            /\ UNCHANGED distributions
       ELSE /\ distributions' = StreamLattice(distributions, collided, dims)
            /\ panicked' = FALSE
    /\ trace' = TraceAfter("stream")
    /\ steps' = StepsAfter
    /\ twin' = TwinAfter("stream")
    /\ UNCHANGED <<dims, converted, intersected, controls, frame, velocity, density, constants, particles, collided,
                   inits, calls>>

CalcConditions ==
    /\ PhaseEnabled("calc_conditions")
    /\ IF LoopPanics(dims)
       THEN /\ panicked' = TRUE
            /\ UNCHANGED <<density, velocity>>
       ELSE /\ density' = [c \in Cells(dims) |-> CellDensity(distributions, c)]
            /\ velocity' = [c \in Cells(dims) |-> CellVelocity(distributions, c)]
            /\ panicked' = FALSE
    /\ trace' = TraceAfter("calc_conditions")
    /\ steps' = StepsAfter
    /\ twin' = TwinAfter("calc_conditions")
    /\ UNCHANGED <<dims, converted, intersected, controls, frame, distributions, constants, particles, collided, inits,
                   calls>>

StreamParticles ==
    /\ PhaseEnabled("stream_particles")
    /\ IF \E i \in 1..Len(particles) : LerpGetPanics(particles[i].position, dims)
       THEN /\ panicked' = TRUE
            /\ UNCHANGED particles
       ELSE /\ particles' =
                    [i \in 1..Len(particles) |->
                        AdvectParticle(particles[i], velocity, constants, dims)]
            /\ panicked' = FALSE
    /\ trace' = TraceAfter("stream_particles")
    /\ steps' = StepsAfter
    /\ collided' = IF Len(trace') = Len(StepOrder) THEN NoLattice ELSE collided
    /\ twin' = TwinAfter("stream_particles")
    /\ UNCHANGED <<dims, converted, intersected, controls, frame, distributions, velocity, density, constants, inits,
                   calls>>

\* ------------------------------------------------------------------------
\* The specification
\* ------------------------------------------------------------------------
Next ==
    \/ \E p \in Policies : Initialize(p)
    \/ Collide
    \/ Stream
    \/ CalcConditions
    \/ StreamParticles

Spec == Init /\ [][Next]_vars

\* ------------------------------------------------------------------------
\* Initialization alone, on more grids
\* ------------------------------------------------------------------------
\* The grids of GridSizes, two more with a single axis of size 2, and the
\* 4x4x4 grid.
GridSizesLarge == GridSizes \cup {<<2, 1, 1>>, <<1, 1, 2>>, <<4, 4, 4>>}

InitLarge ==
    \E dm \in GridSizesLarge :
        \E cst \in ConstantsChoices :
            \E ps \in ParticleLists(dm) : New(dm, cst, ps)

NextInit == \E p \in Policies : Initialize(p)

SpecInit == InitLarge /\ [][NextInit]_vars

\* ------------------------------------------------------------------------
\* The index conversions, called by the host (math.rs:183-257)
\* ------------------------------------------------------------------------
\* The largest coordinate the host passes to a conversion.
MaxCoord == 4

\* Bound3::new, TryFrom<(usize, usize, usize)>, TryFrom<Int3> and Int3::wrap
ConversionKinds == {"new", "try_from_usize", "try_from_int3", "wrap"}

\* The triples the host passes: usize coordinates, or the i32 ones of Int3.
Triples(kind) ==
    LET range == IF kind \in {"new", "try_from_usize"} THEN 0..MaxCoord
                 ELSE (-MaxCoord)..MaxCoord
    IN  range \X range \X range

\* The Result of the conversion kind on the triple t; for Int3::wrap, the
\* one it unwraps.
Conversion(kind, t, dm) ==
    CASE kind = "new" -> Bound3_new(t[1], t[2], t[3], dm)
      [] kind = "try_from_usize" -> TryFromUsize(t, dm)
      [] kind = "try_from_int3" -> TryFromInt3(t, dm)
      [] kind = "wrap" -> Int3_wrap(t, dm)

Convert(kind, t) ==
    /\ ~panicked
    /\ converted = NoConversion
    /\ converted' = [kind |-> kind, args |-> t, ret |-> Conversion(kind, t, dims)]
    /\ panicked' = (kind = "wrap" /\ ~converted'.ret.ok)
    /\ UNCHANGED <<dims, distributions, velocity, density, constants, particles, collided,
                   trace, steps, inits, calls, twin, intersected, controls, frame>>

InitIndex == \E dm \in GridSizes : New(dm, Constants_default, <<>>)

NextIndex == \E kind \in ConversionKinds : \E t \in Triples(kind) : Convert(kind, t)

SpecIndex == InitIndex /\ [][NextIndex]_vars

-----------------------------------------------------------------------------
\* Triangle (mesh.rs) and the segments a caller intersects it with.

\* mesh.rs:10-19
Triangle_new(p0, p1, p2) == [p0 |-> p0, p1 |-> p1, p2 |-> p2]

\* std, (0.0..=1.0).contains(&c)
InUnitRange(c) == ~FLess(c, Zero) /\ ~FLess(One, c) /\ ~IsNaN(c)

\* mesh.rs:24-66, Triangle::intersect_proportion
intersect_proportion(self, p0, p1) ==
    LET base == self.p2
        t0 == VSub(self.p0, base)
        t1 == VSub(self.p1, base)
        normal == cross(t0, t1)
        to_triangle_basis == inverse(from_columns(t0, t1, normal))
        l0_prime == MApply(to_triangle_basis, VSub(p0, base))
        l1_prime == MApply(to_triangle_basis, VSub(p1, base))
        normal_component_prod == FMul(l0_prime[3], l1_prime[3])
        difference == VSub(l1_prime, l0_prime)
        line_scale == FDiv(FNeg(l0_prime[3]), difference[3])
        c0 == FAdd(FMul(line_scale, difference[1]), l0_prime[1])
        c1 == FAdd(FMul(line_scale, difference[2]), l0_prime[2])
    IN  IF FLess(Zero, normal_component_prod) THEN None
        ELSE IF l0_prime[3] = Zero THEN Some(Zero)
        ELSE IF l1_prime[3] = Zero THEN Some(One)
        ELSE IF InUnitRange(c0) /\ InUnitRange(c1) /\ InUnitRange(FAdd(c0, c1))
             THEN Some(line_scale)
             ELSE None

\* The triangles: the one of the test (mesh.rs:75-79), one in the plane
\* z = x + y, and one whose corners lie on a line.
Triangles ==
    {Triangle_new(Vec3(Zero, Zero, Zero), Vec3(Zero, One, Zero), Vec3(One, Zero, Zero)),
     Triangle_new(Vec3(Zero, Zero, Zero), Vec3(One, Zero, One), Vec3(Zero, One, One)),
     Triangle_new(Vec3(Zero, Zero, Zero), Vec3(One, Zero, Zero), Vec3(R(2), Zero, Zero))}

\* The end points of the segments.
SegmentEnds ==
    {Vec3(x, y, z) : x \in {R(-1), Zero, Q(1, 4)}, y \in {R(-1), Zero, Q(1, 4)},
                     z \in {R(-1), Zero, Q(1, 2), One}}

IntersectProportion(tri, p0, p1) ==
    /\ intersected = NoIntersection
    /\ intersected' = [triangle |-> tri, p0 |-> p0, p1 |-> p1,
                       ret |-> intersect_proportion(tri, p0, p1)]
    /\ UNCHANGED <<dims, distributions, velocity, density, constants, particles, collided,
                   trace, steps, inits, calls, panicked, twin, converted, controls, frame>>

InitMesh == New(<<1, 1, 1>>, Constants_default, <<>>)

NextMesh ==
    \E tri \in Triangles : \E p0 \in SegmentEnds : \E p1 \in SegmentEnds :
        IntersectProportion(tri, p0, p1)

SpecMesh == InitMesh /\ [][NextMesh]_vars

-----------------------------------------------------------------------------
\* The host application (bin/app/main.rs, keyboard.rs): each frame runs
\* step_simulation and handle_keystrokes, one after the other in either
\* order.

MaxCounted == 2

\* The grid of the host, in place of X_COUNT, Y_COUNT, Z_COUNT
\* (bin/app/main.rs:22-24).
HostGrid == <<2, 1, 1>>

\* bin/app/main.rs:259-265, the constants main() builds the simulation with
\* and the egui resource hands back each frame.
Constants_host ==
    [time_relaxation_constant |-> Q(5, 4),
     speed_of_sound |-> SpeedOfSound(Q(1, 3)),
     particle_mass |-> Q(3, 20),
     particle_velocity_decay |-> Q(1, 5)]

\* bin/app/main.rs:166-170 with lbm.rs:368-378: particles at rest on cells,
\* the same ones at each call since the seed is fixed.
HostParticles(dm) ==
    <<Particle(IntoVec3(Int3_ZERO), Vec3_ZERO),
      Particle(IntoVec3(<<dm[1] - 1, dm[2] - 1, dm[3] - 1>>), Vec3_ZERO)>>

\* bin/app/main.rs:188-192, the policies of params.function
HostPolicies == {"wave", "circular", "point"}

\* The keys just pressed that handle_keystrokes looks at.
Keys == {"KeyR", "Space", "KeyS"}

\* bin/app/main.rs:286-290
SimControls_initial == [restart_requested |-> TRUE, single_step |-> FALSE, paused |-> FALSE]

\* keyboard.rs:5-16.  frame keeps whether KeyS was among the keys last
\* handled and counts the step() calls that returned since.
handle_keystrokes(keys) ==
    /\ frame # NoFrame
    /\ frame.at = "idle"
    /\ ~panicked
    /\ LET r == IF "KeyR" \in keys THEN [controls EXCEPT !.restart_requested = TRUE]
                ELSE controls
           sp == IF "Space" \in keys THEN [r EXCEPT !.paused = ~@] ELSE r
       IN  controls' = IF "KeyS" \in keys
                       THEN [sp EXCEPT !.single_step = TRUE, !.paused = FALSE]
                       ELSE sp
    /\ frame' = IF keys = {} THEN frame
                ELSE [frame EXCEPT !.s_handled = ("KeyS" \in keys), !.stepped = 0]
    /\ UNCHANGED <<dims, distributions, velocity, density, constants, particles, collided,
                   trace, steps, inits, calls, panicked, twin, converted, intersected>>

\* bin/app/main.rs:174-213, step_simulation up to the call of step():
\* finished is what the timer's tick answers, p the policy of
\* params.function.  frame.tick changes each time the timer finishes.
step_simulation(finished, p) ==
    /\ frame # NoFrame
    /\ frame.at = "idle"
    /\ ~panicked
    /\ LET restart == controls.restart_requested
           stepping == ~controls.paused /\ finished
           new_sim == Initialized(Fresh(dims, HostParticles(dims)), p, dims)
       IN  /\ stepping => (IF restart THEN 0 ELSE steps) < MaxSteps
           /\ constants' = Constants_host
           /\ IF restart
              THEN /\ distributions' = new_sim.distributions
                   /\ density' = new_sim.density
                   /\ velocity' = new_sim.velocity
                   /\ particles' = new_sim.particles
                   /\ collided' = NoLattice
                   /\ trace' = <<>>
                   /\ steps' = 0
                   /\ inits' = 1
                   /\ calls' = InitializeCalls(p, dims)
                   /\ twin' = new_sim
              ELSE UNCHANGED <<distributions, density, velocity, particles, collided,
                               trace, steps, inits, calls, twin>>
           /\ controls' = [controls EXCEPT !.restart_requested = FALSE]
           /\ frame' = [frame EXCEPT !.at = IF stepping THEN "step" ELSE "idle",
                                     !.tick = IF stepping THEN 1 - @ ELSE @,
                                     !.begun = steps']
    /\ UNCHANGED <<dims, panicked, converted, intersected>>

\* A variant of the return of step() that leaves the controls as they are.
step_returnedRunning ==
    /\ frame # NoFrame
    /\ frame.at = "step"
    /\ Idle
    /\ steps > frame.begun
    /\ ~panicked
    /\ controls' = controls
    /\ frame' = [frame EXCEPT !.at = "idle",
                              !.stepped = IF @ < MaxCounted THEN @ + 1 ELSE @]
    /\ UNCHANGED <<dims, distributions, velocity, density, constants, particles, collided,
                   trace, steps, inits, calls, panicked, twin, converted, intersected>>

\* bin/app/main.rs:214-219, step_simulation after step() has returned
step_returned ==
    /\ frame # NoFrame
    /\ frame.at = "step"
    /\ Idle
    /\ steps > frame.begun
    /\ ~panicked
    /\ controls' = IF controls.single_step
                   THEN [controls EXCEPT !.paused = TRUE, !.single_step = FALSE]
                   ELSE controls
    /\ frame' = [frame EXCEPT !.at = "idle",
                              !.stepped = IF @ < MaxCounted THEN @ + 1 ELSE @]
    /\ UNCHANGED <<dims, distributions, velocity, density, constants, particles, collided,
                   trace, steps, inits, calls, panicked, twin, converted, intersected>>

\* bin/app/main.rs:256-317, main
InitHost ==
    /\ Simulation_new(HostGrid, Constants_host, HostParticles(HostGrid),
                      HostParticles(HostGrid))
    /\ controls = SimControls_initial
    /\ frame = [at |-> "idle", tick |-> 0, begun |-> 0, s_handled |-> FALSE, stepped |-> 0]

NextHost ==
    \/ \E keys \in SUBSET Keys : handle_keystrokes(keys)
    \/ \E finished \in BOOLEAN : \E p \in HostPolicies : step_simulation(finished, p)
    \/ Collide
    \/ Stream
    \/ CalcConditions
    \/ StreamParticles
    \/ step_returned

SpecHost == InitHost /\ [][NextHost]_vars

\* ------------------------------------------------------------------------
\* Particles of any position and velocity in a fluid at rest
\* ------------------------------------------------------------------------
\* 2^-26, an f32 too small to tell from zero next to a grid size
Tiny == Q(1, 2 ^ 26)

\* Particle lists a host may pass to new (the fields of Particle are public):
\* particles outside the grid and faster than the grid is wide; particles
\* just below a face of the grid; particles with non-finite coordinates.
ParticleListsWide(dm) ==
    {<<Particle(Vec3(Q(-1, 2), R(-3), Zero), Vec3_ZERO),
       Particle(Vec3_ZERO, Vec3(R(7), R(-9), Q(5, 2))),
       Particle(Vec3(R(10), R(-7), Q(1, 4)), Vec3(Q(-1, 2), Zero, R(13)))>>,
     <<Particle(Vec3(FNeg(Tiny), Zero, Zero), Vec3_ZERO),
       Particle(Vec3(R(dm[1]), FNeg(Tiny), R(dm[3])), Vec3_ZERO),
       Particle(Vec3(Zero, Zero, FSub(R(dm[3]), Q(1, 2 ^ 20))), Vec3_ZERO)>>,
     <<Particle(Vec3(NaN, Zero, Zero), Vec3_ZERO),
       Particle(Vec3(PosInf, NegInf, R(10 ^ 9)), Vec3_ZERO),
       Particle(Vec3_ZERO, Vec3(Zero, NegInf, NaN)),
       Particle(Vec3(R(-(10 ^ 9)), R(-5), R(dm[3])), Vec3_ZERO)>>}

\* The policies that leave the fluid at rest: every cell alike.
UniformPolicies == {"none", "void"}

InitParticles ==
    \E dm \in GridSizes :
        \E cst \in ConstantsChoices :
            \E ps \in ParticleListsWide(dm) : New(dm, cst, ps)

NextParticles ==
    \/ \E p \in UniformPolicies : Initialize(p)
    \/ Collide
    \/ Stream
    \/ CalcConditions
    \/ StreamParticles

SpecParticles == InitParticles /\ [][NextParticles]_vars

-----------------------------------------------------------------------------
\* Two simulations built from the same size and constants but different
\* particle lists, initialized with the same policy and stepped together.

\* The particle lists of the second simulation: none, and a single moving
\* particle in the middle of the first cell.
OtherParticleLists(dm) ==
    {<<>>, <<Particle(Vec3(Q(1, 2), Q(1, 2), Q(1, 2)), Vec3(Zero, One, Zero))>>}

PairPolicies == {"none", "jet", "point", "beam"}

InitPair ==
    \E dm \in GridSizes :
        \E cst \in ConstantsChoices :
            \E ps \in ParticleLists(dm) :
                \E ps2 \in OtherParticleLists(dm) : NewPair(dm, cst, ps, ps2)

NextPair ==
    \/ \E p \in PairPolicies : Initialize(p)
    \/ Collide
    \/ Stream
    \/ CalcConditions
    \/ StreamParticles

SpecPair == InitPair /\ [][NextPair]_vars

\* ------------------------------------------------------------------------
\* Properties
\* ------------------------------------------------------------------------
\* The slot numbers of the lattice, and the array of a slot: q0, then
\* q1[0..6], then q2[0..12].
Slots == 0..18

ArrayOfSlot(k) ==
    IF k = 0 THEN <<"q0", 0>> ELSE IF k < 7 THEN <<"q1", k - 1>> ELSE <<"q2", k - 7>>

\* The sum of the values f[1] .. f[n] of a sequence of floats.
RECURSIVE SumSeq(_, _)
SumSeq(f, n) == IF n = 0 THEN Zero ELSE IF n = 1 THEN f[1] ELSE FAdd(SumSeq(f, n - 1), f[n])

\* Per cell, the sum of the 19 slot values of a lattice and the sum of the
\* values times component j of the slot's direction.
SlotSum(lat, c) == SumSeq([k \in 1..19 |-> lat[ArrayOfSlot(k - 1)][c]], 19)

MomentumSum(lat, c, j) ==
    SumSeq([k \in 1..19 |-> FMul(lat[ArrayOfSlot(k - 1)][c], R(direction(k - 1)[j]))], 19)

\* The density and velocity fields that belong to a lattice.
DensityOf(lat, dm) == [c \in Cells(dm) |-> SlotSum(lat, c)]

VelocityOf(lat, dm) ==
    [c \in Cells(dm) |->
        <<FDiv(MomentumSum(lat, c, 1), SlotSum(lat, c)),
          FDiv(MomentumSum(lat, c, 2), SlotSum(lat, c)),
          FDiv(MomentumSum(lat, c, 3), SlotSum(lat, c))>>]

\* The four phases in the order of the claim.
ClaimedOrder == <<"collide", "stream", "calc_conditions", "stream_particles">>

\* A step of the behaviour that runs the phase called op.
Runs(op) == trace' # trace /\ trace' # <<>> /\ trace'[Len(trace')] = op /\ ~panicked'

\* The phases of the step() in progress are a prefix of the claimed order.
C1_Prefix == \E n \in 0..4 : trace = SubSeq(ClaimedOrder, 1, n)

\* Between the first and the last phase of a call nothing but the next phase
\* runs; a call begins with collide, which reads fields that are those of
\* the current distributions; stream_particles moves the particles by the
\* velocity field of the distributions that this call has streamed.
C1_Flow ==
    /\ (Len(trace) \in 1..3) =>
            /\ trace' = Append(trace, ClaimedOrder[Len(trace) + 1])
            /\ inits' = inits /\ steps' = steps
    /\ steps' # steps => steps' = steps + 1 /\ trace' = <<"collide">>
    /\ Runs("collide") =>
            /\ density = DensityOf(distributions, dims)
            /\ velocity = VelocityOf(distributions, dims)
            /\ collided' = CollideLattice(distributions, DensityOf(distributions, dims),
                                          VelocityOf(distributions, dims), constants, dims)
    /\ Runs("stream_particles") =>
            /\ trace = <<"collide", "stream", "calc_conditions">>
            /\ velocity = VelocityOf(distributions, dims)
            /\ particles' =
                  [i \in 1..Len(particles) |->
                      AdvectParticle(particles[i], VelocityOf(distributions, dims),
                                     constants, dims)]

\* C1: every call to step() runs collide, stream, calc_conditions and
\* stream_particles in that order with nothing in between; collide reads the
\* density and velocity that belong to the current distributions, and
\* stream_particles samples the velocity recomputed in the same call.
C1_StepOrder == []C1_Prefix /\ [][C1_Flow]_vars

\* A second call has finished, from a fluid that is not at rest, and has moved
\* the particles.
C1_Witness ==
    /\ steps = 2 /\ trace = ClaimedOrder
    /\ \E c \in Cells(dims) : velocity[c] # Vec3_ZERO /\ IsFinite(velocity[c][1])
    /\ particles \notin ParticleLists(dims)

\* stream has run and collided_packets is still in scope.
Streamed == Len(trace) >= 2 /\ trace[2] = "stream" /\ collided # NoLattice /\ ~panicked

\* The cell c + e modulo the grid.
Neighbour(c, e, dm) == <<(c[1] + e[1]) % dm[1], (c[2] + e[2]) % dm[2], (c[3] + e[3]) % dm[3]>>

\* C2: after stream(collided), for every cell c and slot k the slot-k value
\* at cell (c + e_k) modulo (X, Y, Z) is collided's slot-k value at c; a
\* value at the maximum index of an axis moving up that axis lands at index
\* 0, and a value at index 0 moving down lands at the maximum index.
C2_StreamMoves ==
    Streamed =>
        \A k \in Slots :
            \A c \in Cells(dims) :
                LET a == ArrayOfSlot(k)
                    e == direction(k)
                    to == Neighbour(c, e, dims)
                IN  /\ distributions[a][to] = collided[a][c]
                    /\ \A j \in 1..3 :
                          /\ (c[j] = dims[j] - 1 /\ e[j] = 1) => to[j] = 0
                          /\ (c[j] = 0 /\ e[j] = -1) => to[j] = dims[j] - 1

\* stream has moved a value across the far x face of the 3x2x1 grid to a
\* cell that held another value, along a two-axis direction.
C2_Witness ==
    /\ Streamed /\ dims = <<3, 2, 1>>
    /\ \E k \in 7..18 :
          \E c \in Cells(dims) :
              LET a == ArrayOfSlot(k)
                  to == Neighbour(c, direction(k), dims)
              IN  /\ c[1] = 2 /\ direction(k)[1] = 1 /\ to[1] = 0 /\ to[2] # c[2]
                  /\ collided[a][c] # collided[a][to]
                  /\ collided[a][c] # Zero
                  /\ distributions[a][to] = collided[a][c]

\* The values of an array, with the number of cells that hold each.
ValueCounts(f, dm) ==
    [v \in {f[c] : c \in Cells(dm)} |-> Cardinality({c \in Cells(dm) : f[c] = v})]

\* The values of a whole lattice, with the number of (array, cell) pairs
\* that hold each.
LatticeValueCounts(lat, dm) ==
    [v \in {lat[a][c] : a \in Arrays, c \in Cells(dm)} |->
        Cardinality({ac \in Arrays \X Cells(dm) : lat[ac[1]][ac[2]] = v})]

\* The sum of an array over the cells in loop order.
ArraySum(f, dm) == SumSeq([i \in 1..Len(LoopCells(dm)) |-> f[LoopCells(dm)[i]]], Len(LoopCells(dm)))

\* The numbers of an array are within MaxMagnitude, so that its sum is a
\* number of the model.
SmallArray(f, dm) == \A c \in Cells(dm) : Small(f[c])

\* C3: streaming conserves mass.  After stream each array of the
\* distributions holds the values of the same array of the lattice passed
\* in, each as many times, and so does the whole lattice; the sums over the
\* cells are therefore equal for each slot and overall.
C3_StreamConserves ==
    Streamed =>
        /\ \A a \in Arrays :
              /\ ValueCounts(distributions[a], dims) = ValueCounts(collided[a], dims)
              /\ SmallArray(collided[a], dims) =>
                    ArraySum(distributions[a], dims) = ArraySum(collided[a], dims)
        /\ LatticeValueCounts(distributions, dims) = LatticeValueCounts(collided, dims)
        /\ (\A a \in Arrays : SmallArray(collided[a], dims)) =>
              SumSeq([k \in 1..19 |-> ArraySum(distributions[ArrayOfSlot(k - 1)], dims)], 19)
                  = SumSeq([k \in 1..19 |-> ArraySum(collided[ArrayOfSlot(k - 1)], dims)], 19)

\* stream has moved the values of an array that are not all equal, and
\* whose sum is not zero, to other cells.
C3_Witness ==
    /\ Streamed
    /\ \E a \in Arrays :
          /\ SmallArray(collided[a], dims)
          /\ distributions[a] # collided[a]
          /\ ArraySum(collided[a], dims) # Zero
          /\ Cardinality({collided[a][c] : c \in Cells(dims)}) >= 3

\* The LatticeIndex of a slot (iteration.rs:9-13).
IndexOfSlot(k) ==
    IF k = 0 THEN <<"Q0", 0>> ELSE IF k < 7 THEN <<"Q1", k - 1>> ELSE <<"Q2", k - 7>>

\* The number of nonzero components of a vector, and the vectors of
\* components -1, 0, 1 with n nonzero components.
NonZeroCount(v) == Cardinality({j \in 1..3 : v[j] # 0})

UnitVectors(n) == {v \in {-1, 0, 1} \X {-1, 0, 1} \X {-1, 0, 1} : NonZeroCount(v) = n}

\* A table of 19 directions is the D3Q19 set, slot class by slot class.
IsD3Q19(table) ==
    /\ table[0] = <<0, 0, 0>>
    /\ {table[k] : k \in 1..6} = UnitVectors(1)
    /\ {table[k] : k \in 7..18} = UnitVectors(2)
    /\ \A j, k \in Slots : j # k => table[j] # table[k]

\* C4: the directions of the 19 slots are pairwise distinct and are the zero
\* vector (slot 0), the six vectors with one component +-1 (slots 1..6) and
\* the twelve vectors with two components +-1 (slots 7..18), in the table of
\* lbm.rs and in the table of iteration.rs, and so are the directions that
\* initialize hands to its policy slot by slot.
C4_Directions ==
    /\ IsD3Q19([k \in Slots |-> direction(k)])
    /\ IsD3Q19([k \in Slots |-> LatticeIndex_direction(IndexOfSlot(k))])
    /\ calls # <<>> => IsD3Q19([k \in Slots |-> calls[k * Len(LoopCells(dims)) + 1].args.dir])

\* initialize has handed every direction of the table to its policy: 19
\* distinct directions, those of the slots in order.
C4_Witness ==
    /\ calls # <<>>
    /\ Cardinality({calls[j].args.dir : j \in DOMAIN calls}) = 19
    /\ \A k \in Slots : calls[k * Len(LoopCells(dims)) + 1].args.dir = direction(k)

\* The weight that the claim attaches to a direction.
ClaimedWeight(v) ==
    IF NonZeroCount(v) = 0 THEN Q(1, 3) ELSE IF NonZeroCount(v) = 1 THEN Q(1, 18) ELSE Q(1, 36)

\* C5: the weight of a slot is 1/3 when its direction is zero, 1/18 when the
\* direction has one nonzero component and 1/36 when it has two, and the 19
\* weights sum to 1 in exact arithmetic, in lbm.rs and in iteration.rs; the
\* weight that initialize hands to its policy is the one of the direction.
C5_Weights ==
    /\ \A k \in Slots : weights(k) = ClaimedWeight(direction(k))
    /\ SumSeq([k \in 1..19 |-> weights(k - 1)], 19) = One
    /\ \A k \in Slots :
          LatticeIndex_weight(IndexOfSlot(k)) = ClaimedWeight(LatticeIndex_direction(IndexOfSlot(k)))
    /\ SumSeq([k \in 1..19 |-> LatticeIndex_weight(IndexOfSlot(k - 1))], 19) = One
    /\ \A j \in DOMAIN calls : calls[j].args.weight = ClaimedWeight(calls[j].args.dir)

\* initialize has handed the weights of the three slot classes to its
\* policy, and the weights it handed over for one cell sum to 1.
C5_Witness ==
    /\ calls # <<>>
    /\ {calls[j].args.weight : j \in DOMAIN calls} = {Q(1, 3), Q(1, 18), Q(1, 36)}
    /\ SumSeq([k \in 1..19 |-> calls[(k - 1) * Len(LoopCells(dims)) + 1].args.weight], 19) = One

\* The items of two iterators agree position by position, on the arrays
\* q0, q1[0..6], q2[0..12] in that order.
SameItems(it, itm) ==
    /\ Len(it) = 19 /\ Len(itm) = 19
    /\ \A k \in 1..19 :
          /\ it[k].dist = ArrayOfSlot(k - 1)
          /\ itm[k].dist = ArrayOfSlot(k - 1)
          /\ it[k].dir = itm[k].dir
          /\ it[k].weight = itm[k].weight

\* C6: iter and iter_mut yield the 19 items in the same order, with the same
\* array, direction and weight at every position, in lbm.rs and in
\* iteration.rs; the zip of collide therefore fills each array with values
\* computed from that array's own direction and weight.
C6_SameOrder ==
    /\ SameItems(iter, iter_mut)
    /\ SameItems(iteration_iter, iteration_iter_mut)
    /\ (trace = <<"collide">> /\ ~panicked) =>
          \A k \in 1..19 :
              \A c \in Cells(dims) :
                  collided[iter_mut[k].dist][c] =
                      CollideCell(distributions[iter_mut[k].dist][c], iter_mut[k].dir,
                                  iter_mut[k].weight, density[c], velocity[c], constants)

\* collide has zipped the two iterators over a fluid in motion, where the
\* value of a slot depends on its direction.
C6_Witness ==
    /\ trace = <<"collide">>
    /\ \E c \in Cells(dims) :
          /\ IsFinite(velocity[c][1]) /\ velocity[c][1] # Zero
          /\ collided[<<"q1", 0>>][c] # collided[<<"q1", 1>>][c]

\* collide has run and nothing after it.
Collided == trace = <<"collide">> /\ collided # NoLattice /\ ~panicked

\* The equilibrium of the claim for slot k at cell c:
\* weight * density * (1 + e.u/cs^2 + (e.u)^2/(2 cs^4) - u.u/(2 cs^2)).
ClaimedEq(k, c) ==
    LET e == direction(k)
        u == velocity[c]
        eu == FAdd(FAdd(FMul(R(e[1]), u[1]), FMul(R(e[2]), u[2])), FMul(R(e[3]), u[3]))
        uu == FAdd(FAdd(FMul(u[1], u[1]), FMul(u[2], u[2])), FMul(u[3], u[3]))
        cs2 == SquareOf(constants.speed_of_sound)
        cs4 == FMul(cs2, cs2)
    IN  FMul(FMul(weights(k), density[c]),
             FSub(FAdd(FAdd(One, FDiv(eu, cs2)), FDiv(FMul(eu, eu), FMul(R(2), cs4))),
                  FDiv(uu, FMul(R(2), cs2))))

\* mix * eq + (1 - mix) * old
ClaimedMix(mix, eq, old) == FAdd(FMul(mix, eq), FMul(FSub(One, mix), old))

\* The value collide returns for slot k at cell c is the claimed mix.
C7_Value(k, c) ==
    collided[ArrayOfSlot(k)][c] =
        ClaimedMix(constants.time_relaxation_constant, ClaimedEq(k, c),
                   distributions[ArrayOfSlot(k)][c])

\* The statement as claimed: the value collide returns is
\* mix * eq + (1 - mix) * old, hence the old value when mix = 0 and eq when
\* mix = 1.
C7_AsClaimed ==
    Collided =>
        \A k \in Slots :
            \A c \in Cells(dims) :
                /\ C7_Value(k, c)
                /\ constants.time_relaxation_constant = Zero =>
                      collided[ArrayOfSlot(k)][c] = distributions[ArrayOfSlot(k)][c]
                /\ constants.time_relaxation_constant = One =>
                      collided[ArrayOfSlot(k)][c] = ClaimedEq(k, c)

\* C7: for every cell and slot the value collide returns is
\* mix * eq + (1 - mix) * old with mix the time_relaxation_constant, old the
\* current slot value and eq the equilibrium of the cell's density and
\* velocity; mix = 0 returns the old value where eq is finite, and mix = 1
\* returns eq where the old value is finite.
C7_CollideValue ==
    Collided =>
        \A k \in Slots :
            \A c \in Cells(dims) :
                /\ C7_Value(k, c)
                /\ (constants.time_relaxation_constant = Zero /\ IsFinite(ClaimedEq(k, c))) =>
                      collided[ArrayOfSlot(k)][c] = distributions[ArrayOfSlot(k)][c]
                /\ (constants.time_relaxation_constant = One
                        /\ IsFinite(distributions[ArrayOfSlot(k)][c])) =>
                      collided[ArrayOfSlot(k)][c] = ClaimedEq(k, c)

\* collide has run with mix = 0 on a fluid in motion, at a cell where the
\* finite equilibrium of a slot differs from the old value it returns.
C7_Witness ==
    /\ Collided /\ constants.time_relaxation_constant = Zero
    /\ \E k \in 1..18 :
          \E c \in Cells(dims) :
              /\ velocity[c] # Vec3_ZERO
              /\ IsFinite(ClaimedEq(k, c))
              /\ ClaimedEq(k, c) # distributions[ArrayOfSlot(k)][c]
              /\ collided[ArrayOfSlot(k)][c] = distributions[ArrayOfSlot(k)][c]

\* Two cells with the same slot value, density and velocity before collide
\* receive the same value from it.
C8_Local ==
    \A a \in Arrays :
        \A c1, c2 \in Cells(dims) :
            (/\ distributions[a][c1] = distributions[a][c2]
             /\ density[c1] = density[c2]
             /\ velocity[c1] = velocity[c2]) => collided'[a][c1] = collided'[a][c2]

C8_Frame ==
    Runs("collide") =>
        /\ UNCHANGED <<distributions, density, velocity, constants, particles>>
        /\ DOMAIN collided' = Arrays
        /\ \A a \in Arrays : DOMAIN collided'[a] = Cells(dims)
        /\ C8_Local

\* C8: collide leaves the distributions, the density and velocity fields,
\* the constants and the particles unchanged and returns a lattice of its
\* own, in which the value at a cell is determined by that cell's slot value,
\* density and velocity before the call.
C8_CollideFrame == [][C8_Frame]_vars

\* collide has returned a lattice that differs from the distributions it
\* read, on a grid where two cells agree in what collide reads and a third
\* differs from them.
C8_Witness ==
    /\ Collided
    /\ \E a \in Arrays :
          \E c1, c2, c3 \in Cells(dims) :
              /\ c1 # c2
              /\ distributions[a][c1] = distributions[a][c2]
              /\ density[c1] = density[c2] /\ velocity[c1] = velocity[c2]
              /\ density[c3] # density[c1]
              /\ collided[a][c1] = collided[a][c2]
              /\ collided[a][c3] # collided[a][c1]
              /\ collided[a][c1] # distributions[a][c1]

\* C9: in every state between calls of new, initialize and step, the density
\* of every cell is the sum of its 19 slot values and its velocity is the sum
\* of the slot values times their directions, divided by that density.
C9_Conditions ==
    (Idle /\ ~panicked) =>
        \A c \in Cells(dims) :
            /\ density[c] = SlotSum(distributions, c)
            /\ \A j \in 1..3 :
                  velocity[c][j] = FDiv(MomentumSum(distributions, c, j), density[c])

\* A step has finished and left a cell in motion whose density is neither 1
\* nor 0 and whose momentum differs from its velocity.
C9_Witness ==
    /\ Idle /\ steps >= 1 /\ ~panicked
    /\ \E c \in Cells(dims) :
          /\ density[c] # One /\ density[c] # Zero /\ IsFinite(density[c])
          /\ \E j \in 1..3 :
                /\ velocity[c][j] # Zero
                /\ velocity[c][j] # MomentumSum(distributions, c, j)

\* The value of an Option<f32>, or a default: Option::unwrap_or.
UnwrapOr(o, default) == IF o.some THEN o.v ELSE default

\* The slot of a direction of the table.
SlotOf(dir) == CHOOSE k \in Slots : direction(k) = dir

\* The (cell, direction) pairs of the policy calls.
CalledPairs == {<<calls[j].args.loc, calls[j].args.dir>> : j \in DOMAIN calls}

\* C10: after initialize(policy) the value of every slot at every cell is
\* what the policy returned for it, or else 1.0 for the zero direction and
\* 0.0 for the others; the policy was consulted once for each of the
\* 19*X*Y*Z pairs of a cell and a slot, with the direction and weight of the
\* slot; and density and velocity are those of the new values.
C10_Initialize ==
    calls # <<>> =>
        /\ Len(calls) = 19 * dims[1] * dims[2] * dims[3]
        /\ CalledPairs = Cells(dims) \X {direction(k) : k \in Slots}
        /\ Cardinality(CalledPairs) = Len(calls)
        /\ \A j \in DOMAIN calls :
              LET k == SlotOf(calls[j].args.dir)
              IN  /\ calls[j].args.weight = weights(k)
                  /\ distributions[ArrayOfSlot(k)][calls[j].args.loc] =
                        UnwrapOr(calls[j].ret,
                                 IF calls[j].args.dir = <<0, 0, 0>> THEN One ELSE Zero)
        /\ density = DensityOf(distributions, dims)
        /\ velocity = VelocityOf(distributions, dims)

\* initialize has run after a step, with a policy that answered for some
\* pairs and not for others, and has left a fluid in motion.
C10_Witness ==
    /\ calls # <<>> /\ steps >= 1
    /\ \E j \in DOMAIN calls : calls[j].ret.some /\ calls[j].ret.v # One
    /\ \E j \in DOMAIN calls : ~calls[j].ret.some /\ calls[j].args.dir # <<0, 0, 0>>
    /\ \E j \in DOMAIN calls : ~calls[j].ret.some /\ calls[j].args.dir = <<0, 0, 0>>
    /\ \E c \in Cells(dims) : velocity[c] # Vec3_ZERO

\* The policy of the last initialize answered Some(1.0) for cell (0,0,0)
\* with the zero direction and None for every other cell and direction.
OriginPolicyCalled ==
    /\ calls # <<>>
    /\ \A j \in DOMAIN calls :
          calls[j].ret =
              IF calls[j].args.loc = <<0, 0, 0>> /\ calls[j].args.dir = <<0, 0, 0>>
              THEN Some(One) ELSE None

\* C11: after initialize with a policy that returns Some(1.0) only for cell
\* (0,0,0) with the zero direction and None otherwise, the density is 1.0 and
\* the velocity is the zero vector at every cell, on the 4x4x4 grid (and on
\* the other grids).
C11_OriginSeed ==
    OriginPolicyCalled =>
        \A c \in Cells(dims) : density[c] = One /\ velocity[c] = Vec3_ZERO

\* initialize has run with that policy on the 4x4x4 grid.
C11_Witness ==
    /\ dims = <<4, 4, 4>> /\ OriginPolicyCalled /\ inits = 1
    /\ Len(calls) = 19 * 64
    /\ distributions[<<"q0", 0>>][<<3, 3, 3>>] = One

CellsAround(c) ==
    {<<(c[1] + i) % dims[1], (c[2] + j) % dims[2], (c[3] + k) % dims[3]>> :
        i \in 0..1, j \in 0..1, k \in 0..1}

FiniteVec3(v) == \A j \in 1..3 : IsFinite(v[j])

\* C13: lerp_get of the velocity field at a position whose coordinates are
\* the whole numbers of a cell returns exactly the value stored at that cell,
\* whatever the finite values of the neighbouring cells.
C13_LerpExact ==
    \A c \in Cells(dims) :
        (\A n \in CellsAround(c) : FiniteVec3(velocity[n])) =>
            lerp_get(velocity, IntoVec3(c), dims) = velocity[c]

\* stream_particles is about to sample a particle that sits on a cell whose
\* neighbours hold other finite velocities.
C13_Witness ==
    /\ ~Idle /\ NextPhase = "stream_particles"
    /\ \E i \in 1..Len(particles) :
          \E c \in Cells(dims) :
              /\ particles[i].position = IntoVec3(c)
              /\ \A n \in CellsAround(c) : FiniteVec3(velocity[n])
              /\ \E n \in CellsAround(c) :
                    velocity[n] # velocity[c] /\ velocity[n] # Vec3_ZERO
              /\ lerp_get(velocity, particles[i].position, dims) = velocity[c]

\* The velocity the claim gives particle i: the decayed velocity plus the
\* field sampled at the position before the move, divided by the mass.
ClaimedVelocity(i) ==
    VAdd(VScale(constants.particle_velocity_decay, particles[i].velocity),
         VDiv(lerp_get(velocity, particles[i].position, dims), constants.particle_mass))

C14_Step ==
    (Runs("stream_particles") /\ ~panicked') =>
        /\ Len(particles') = Len(particles)
        /\ \A i \in 1..Len(particles) :
              /\ particles'[i].velocity = ClaimedVelocity(i)
              /\ particles'[i].position =
                    Vec3_wrap(VAdd(particles[i].position, particles'[i].velocity), dims)

\* C14: stream_particles sets each particle's velocity to
\* particle_velocity_decay * velocity + sampled / particle_mass, sampled being
\* the velocity field interpolated at the position before the move, and then
\* its position to Vec3::wrap of position + the updated velocity.
C14_StreamParticles == [][C14_Step]_vars

\* stream_particles has run in a moving fluid with particle_mass 2: the
\* particle that was at rest has a velocity, the first one is no longer
\* where it was, and its old and new velocities differ.
C14_Witness ==
    /\ Idle /\ steps = 1 /\ Len(trace) = Len(StepOrder) /\ ~panicked
    /\ constants.particle_mass = R(2)
    /\ particles[2].velocity # Vec3_ZERO
    /\ particles[1].velocity \notin {Vec3(One, Zero, Zero), Vec3(Q(1, 2), Zero, Zero)}
    /\ particles[1].position[1] # FSub(R(dims[1]), Q(1, 10))

\* 0 <= p[j] < dims[j] on every axis.
InGrid(p) ==
    \A j \in 1..3 : (p[j] = Zero \/ FLess(Zero, p[j])) /\ FLess(p[j], R(dims[j]))

\* A whole step() has just returned.
Stepped == Idle /\ Len(trace) = Len(StepOrder) /\ ~panicked

\* C15: after every step() every particle's position satisfies 0 <= x < X,
\* 0 <= y < Y and 0 <= z < Z, whatever its position and velocity were before
\* (read here for the particles whose position is still a finite number),
\* and the number of particles is the one given to new().
C15_InGrid ==
    Stepped =>
        /\ Len(particles) = Len(twin.particles)
        /\ \A i \in 1..Len(particles) :
              FiniteVec3(particles[i].position) => InGrid(particles[i].position)

\* stream_particles runs on the particle of the claim: the first particle is
\* at (X - 0.1, 0, 0) with velocity (1, 0, 0), and the velocity field is zero
\* everywhere.
C16_Case ==
    /\ Runs("stream_particles")
    /\ particles[1] =
          Particle(Vec3(FSub(R(dims[1]), Q(1, 10)), Zero, Zero), Vec3(One, Zero, Zero))
    /\ velocity = [c \in Cells(dims) |-> Vec3_ZERO]

C16_ToNineTenths ==
    C16_Case => particles'[1].position[1] = Q(9, 10) /\ InGrid(particles'[1].position)

\* C16 as stated: the particle at (X - 0.1, 0, 0) with velocity (1, 0, 0) in
\* a zero velocity field is moved by one stream_particles call to x = 0.9,
\* with x neither negative nor >= X.
C16_AsClaimed == [][C16_ToNineTenths]_vars

C16_Decayed ==
    C16_Case =>
        LET d == constants.particle_velocity_decay
            x == particles'[1].position[1]
        IN  /\ \E k \in 0..2 : x = FSub(FAdd(FSub(R(dims[1]), Q(1, 10)), d), R(k * dims[1]))
            /\ InGrid(particles'[1].position)
            /\ particles'[1].velocity = Vec3(d, Zero, Zero)
            /\ d = One => x = Q(9, 10)
            /\ d = Q(19, 20) => x = Q(17, 20)

\* C16, amended: that particle is moved to x = X - 0.1 + d reduced modulo X,
\* d being particle_velocity_decay, with x neither negative nor >= X: 0.85
\* with the default decay 0.95, and 0.9 when the decay is 1.
C16_Wrap == [][C16_Decayed]_vars

\* With the default constants the particle of the claim has been moved, in a
\* fluid at rest, to x = 0.85.
C16_Witness ==
    /\ Stepped /\ steps = 1
    /\ constants = Constants_default
    /\ velocity = [c \in Cells(dims) |-> Vec3_ZERO]
    /\ particles[1] = Particle(Vec3(Q(17, 20), Zero, Zero), Vec3(Q(19, 20), Zero, Zero))

\* The host has called the conversion kind.
Converted(kind) == converted # NoConversion /\ converted.kind = kind

\* C17: Bound3::new and TryFrom<(usize, usize, usize)> return Err exactly
\* when x >= X or y >= Y or z >= Z, TryFrom<Int3> returns Err exactly when a
\* coordinate is negative or at or above its bound, every Ok holds the
\* coordinates it was given, and so every Bound3 is a cell of the grid.
C17_Bound3 ==
    converted # NoConversion =>
        LET t == converted.args
            r == converted.ret
        IN  /\ (Converted("new") \/ Converted("try_from_usize")) =>
                  (~r.ok <=> (t[1] >= dims[1] \/ t[2] >= dims[2] \/ t[3] >= dims[3]))
            /\ Converted("try_from_int3") =>
                  (~r.ok <=> \E j \in 1..3 : t[j] < 0 \/ t[j] >= dims[j])
            /\ (~Converted("wrap") /\ r.ok) => r.v = t
            /\ r.ok => r.v \in Cells(dims)

\* TryFrom<(usize, usize, usize)> has refused a triple whose only fault is a
\* coordinate equal to its bound.
C17_Witness ==
    /\ Converted("try_from_usize")
    /\ ~converted.ret.ok
    /\ \E j \in 1..3 :
          /\ converted.args[j] = dims[j]
          /\ \A k \in 1..3 : k # j => converted.args[k] < dims[k]

\* C18: for every integer triple Int3::wrap does not fail, and returns on
\* each axis the one value of 0..bound-1 that differs from the coordinate of
\* that axis by a multiple of the axis size.
C18_Wrap ==
    Converted("wrap") =>
        /\ converted.ret.ok
        /\ ~panicked
        /\ \A j \in 1..3 :
              /\ converted.ret.v[j] \in 0..(dims[j] - 1)
              /\ \E k \in (-MaxCoord - 1)..(MaxCoord + 1) :
                    converted.ret.v[j] = converted.args[j] + k * dims[j]

\* Int3::wrap has been given a triple with a negative coordinate and one
\* beyond its bound, on a grid with an axis longer than 1.
C18_Witness ==
    /\ Converted("wrap") /\ converted.ret.ok
    /\ \E j \in 1..3 : converted.args[j] < 0 /\ dims[j] > 1 /\ converted.ret.v[j] # 0
    /\ \E j \in 1..3 : converted.args[j] > dims[j]

\* C19: no unwrap of an index conversion in new, initialize, step, collide,
\* stream, calc_conditions or lerp_get fails, on grids with axes of size 1, 2
\* and 3 and for every particle position: none has panicked, and none would
\* in the loops over the cells, in stream or in lerp_get at the position of a
\* particle.
C19_NoPanic ==
    /\ ~panicked
    /\ ~LoopPanics(dims)
    /\ ~StreamPanics(dims)
    /\ \A i \in 1..Len(particles) : ~LerpGetPanics(particles[i].position, dims)

\* initialize and two whole steps have run on the 3x2x1 grid with particles
\* whose coordinates were NaN, infinite or far outside the grid.
C19_Witness ==
    /\ Stepped /\ steps = 2 /\ inits = 1
    /\ dims = <<3, 2, 1>>
    /\ Len(twin.particles) = 4
    /\ \E i \in 1..Len(particles) : IsNaN(particles[i].position[1])
    /\ \E i \in 1..Len(particles) : FiniteVec3(particles[i].position)

\* Every cell of the density field rho holds a number above zero.
AllPositive(rho) == \A c \in Cells(dims) : FLess(Zero, rho[c])

\* calc_conditions of a step() of an initialized simulation whose density was
\* positive at every cell leaves the density positive at every cell (collide
\* and stream leave the density field as the step found it).
C20_Step ==
    (Runs("calc_conditions") /\ inits >= 1 /\ steps >= 1 /\ AllPositive(density)) =>
        AllPositive(density')

\* C20: from an initialized state in which the density of every cell is
\* strictly positive, the density of every cell is strictly positive after
\* each step().
C20_DensityPositive == [][C20_Step]_vars

\* The cells whose 19 slot values summed to zero when calc_conditions last
\* ran.
EmptyCells == {c \in Cells(dims) : density[c] = Zero}

\* C21: a cell whose slot values sum to zero gets the quotient by zero, a
\* non-finite value in every component, as its velocity, and nothing panics;
\* the next collide gives every slot of that cell the value NaN, and stream
\* carries each of them to the neighbour of its direction.
C21_Propagates ==
    \A c \in EmptyCells :
        /\ ~panicked
        /\ \A j \in 1..3 : ~IsFinite(velocity[c][j])
        /\ Collided => \A a \in Arrays : IsNaN(collided[a][c])
        /\ Streamed =>
              \A k \in Slots :
                  IsNaN(distributions[ArrayOfSlot(k)][Neighbour(c, direction(k), dims)])

\* stream has run after initialize left a single cell without fluid: the
\* NaN of that cell has reached a neighbour whose own density is positive.
C21_Witness ==
    /\ Streamed /\ inits = 1 /\ steps = 1
    /\ EmptyCells = {<<0, 0, 0>>}
    /\ \E k \in Slots :
          LET n == Neighbour(<<0, 0, 0>>, direction(k), dims)
          IN  /\ n # <<0, 0, 0>>
              /\ FLess(Zero, density[n])
              /\ IsNaN(distributions[ArrayOfSlot(k)][n])

\* C22: two simulations with the same constants and the same fluid but
\* different particle lists have the same distributions, density and
\* velocity (and the same post-collision lattice inside a step) after every
\* initialize and every phase of every step.
C22_FluidIgnoresParticles ==
    ~panicked =>
        /\ twin.particles # particles
        /\ twin.distributions = distributions
        /\ twin.density = density
        /\ twin.velocity = velocity
        /\ twin.collided = collided

\* Two steps are done on a moving fluid, the first simulation's particles
\* have moved, and the second simulation holds one particle that moved too.
C22_Witness ==
    /\ Stepped /\ steps = 2 /\ inits = 1
    /\ particles \notin ParticleLists(dims)
    /\ twin.particles \notin OtherParticleLists(dims)
    /\ \E c \in Cells(dims) : velocity[c] # Vec3_ZERO

\* The normal of a triangle, from its first corner.
NormalOf(tri) == cross(VSub(tri.p1, tri.p0), VSub(tri.p2, tri.p0))

NonDegenerate(tri) == NormalOf(tri) # Vec3_ZERO

\* The signed distance of x from the plane of tri, times the normal's length.
SideOf(tri, x) == dot(NormalOf(tri), VSub(x, tri.p0))

\* x lies in the plane of tri and on the inner side of each of its edges.
InTriangle(tri, x) ==
    /\ SideOf(tri, x) = Zero
    /\ \A e \in {<<tri.p0, tri.p1>>, <<tri.p1, tri.p2>>, <<tri.p2, tri.p0>>} :
          ~FLess(dot(cross(VSub(e[2], e[1]), VSub(x, e[1])), NormalOf(tri)), Zero)

\* The point of the segment p0 -> p1 at the proportion t.
PointAt(p0, p1, t) == VAdd(p0, VScale(t, VSub(p1, p0)))

\* C23: for a non-degenerate triangle, Some(t) is returned only with
\* 0 <= t <= 1 and p0 + t (p1 - p0) in the plane and inside the triangle;
\* None is returned when both end points lie strictly on the same side of
\* the plane, and when the segment crosses the plane outside the triangle.
C23_Intersect ==
    (intersected # NoIntersection /\ NonDegenerate(intersected.triangle)) =>
        LET tri == intersected.triangle
            p0 == intersected.p0
            p1 == intersected.p1
            ret == intersected.ret
            s0 == SideOf(tri, p0)
            s1 == SideOf(tri, p1)
        IN  /\ ret.some =>
                  /\ InUnitRange(ret.v)
                  /\ InTriangle(tri, PointAt(p0, p1, ret.v))
            /\ FLess(Zero, FMul(s0, s1)) => ~ret.some
            /\ (FLess(FMul(s0, s1), Zero)
                  /\ ~InTriangle(tri, PointAt(p0, p1, FDiv(s0, FSub(s0, s1))))) => ~ret.some

\* The whole number below a finite float.
FloorOf(a) == a.n \div a.d

\* The part of a finite float above its floor.
FracOf(a) == FSub(a, R(FloorOf(a)))

\* The three choices, floor cell (0) or next cell (1), of the 8 corners.
CornerChoices == [j \in 1..8 |-> <<(j - 1) \div 4, ((j - 1) \div 2) % 2, (j - 1) % 2>>]

\* The weight the claim gives the choice b on the axis whose coordinate is a.
AxisWeight(a, b) == IF b = 0 THEN FSub(One, FracOf(a)) ELSE FracOf(a)

\* The weight of the corner b of the position p: the product over the axes.
CornerWeight(p, b) ==
    FMul(FMul(AxisWeight(p[1], b[1]), AxisWeight(p[2], b[2])), AxisWeight(p[3], b[3]))

\* The cell of the corner b of the position p, each axis reduced modulo its
\* size.
CornerCell(p, b) ==
    <<(FloorOf(p[1]) + b[1]) % dims[1], (FloorOf(p[2]) + b[2]) % dims[2],
      (FloorOf(p[3]) + b[3]) % dims[3]>>

\* C24: when stream_particles samples the velocity field, lerp_get at the
\* (finite) position of a particle is the sum over the 8 corners of the value stored at the corner's
\* cell times the corner's weight; the 8 weights are non-negative and sum
\* to 1; on an axis where the position lies between size - 1 and size the
\* two cells blended are size - 1 and 0.
C24_Trilinear ==
    \A i \in 1..Len(particles) :
        LET p == particles[i].position
        IN  (PhaseEnabled("stream_particles") /\ FiniteVec3(p)) =>
              /\ lerp_get(velocity, p, dims) =
                    SumVec3([j \in 1..8 |->
                                VScale(CornerWeight(p, CornerChoices[j]),
                                       velocity[CornerCell(p, CornerChoices[j])])], 8)
              /\ \A j \in 1..8 : ~FLess(CornerWeight(p, CornerChoices[j]), Zero)
              /\ SumSeq([j \in 1..8 |-> CornerWeight(p, CornerChoices[j])], 8) = One
              /\ \A j \in 1..3 :
                    FloorOf(p[j]) = dims[j] - 1 =>
                        bounds(p[j], dims[j]) =
                            <<Weighted(dims[j] - 1, FSub(One, FracOf(p[j]))),
                              Weighted(0, FracOf(p[j]))>>

\* stream_particles is about to sample a particle strictly between the
\* last cell of the x axis and the face of the grid, where the last cell
\* and cell 0 hold different finite velocities and the sample is neither.
C24_Witness ==
    /\ PhaseEnabled("stream_particles")
    /\ \E i \in 1..Len(particles) :
          LET p == particles[i].position
              last == CornerCell(p, <<0, 0, 0>>)
              first == CornerCell(p, <<1, 0, 0>>)
          IN  /\ FiniteVec3(p)
              /\ FloorOf(p[1]) = dims[1] - 1
              /\ FracOf(p[1]) # Zero
              /\ last # first
              /\ FiniteVec3(velocity[last]) /\ FiniteVec3(velocity[first])
              /\ lerp_get(velocity, p, dims) \notin {velocity[last], velocity[first]}

\* collide has run on the state new() builds and initialize writes where the
\* policy has no opinion: the default lattice, density 1, velocity zero.
CollidedFallback ==
    /\ Collided
    /\ distributions = Lattice_default(dims)
    /\ density = [c \in Cells(dims) |-> One]
    /\ velocity = [c \in Cells(dims) |-> Vec3_ZERO]

\* C25 as stated: collide returns for every cell and slot of the fallback
\* state the value the slot held.
C25_AsClaimed == CollidedFallback => collided = distributions

\* C25: on the fallback state collide returns, for the slot k of every cell,
\* weight(k) * mix + old * (1 - mix) with mix the time relaxation constant;
\* that is the value the slot held at every cell and slot exactly when the
\* constant is zero.
C25_Relaxes ==
    CollidedFallback =>
        /\ \A k \in Slots : \A c \in Cells(dims) :
              collided[ArrayOfSlot(k)][c] =
                  FAdd(FMul(weights(k), constants.time_relaxation_constant),
                       FMul(distributions[ArrayOfSlot(k)][c],
                            FSub(One, constants.time_relaxation_constant)))
        /\ (collided = distributions) <=> (constants.time_relaxation_constant = Zero)

\* With the default constant 5/4 the zero slot drops from 1 to 1/6 and an
\* axis slot rises from 0 to 5/72.
C25_Witness ==
    /\ CollidedFallback
    /\ constants = Constants_default
    /\ collided[ArrayOfSlot(0)][Int3_ZERO] = Q(1, 6)
    /\ collided[ArrayOfSlot(1)][Int3_ZERO] = Q(5, 72)

\* The cells whose density is a nonzero number and is, with the velocity,
\* what calc_conditions derives from the distributions collide has read.
Derived(c) ==
    /\ IsFinite(density[c]) /\ density[c] # Zero
    /\ density[c] = CellDensity(distributions, c)
    /\ velocity[c] = CellVelocity(distributions, c)

\* C26: with the square of the speed of sound 1/3, the 19 values collide
\* returns for a cell of nonzero density sum to the density of the cell,
\* whatever the time relaxation constant.
C26_MassConserved ==
    (Collided /\ SquareOf(constants.speed_of_sound) = Q(1, 3)) =>
        \A c \in Cells(dims) : Derived(c) => SlotSum(collided, c) = density[c]

\* collide has changed the slots of a cell of a moving fluid.
C26_Witness ==
    /\ Collided /\ constants = Constants_default
    /\ \E c \in Cells(dims) :
          /\ Derived(c)
          /\ velocity[c] # Vec3_ZERO
          /\ SlotSum(collided, c) = density[c]
          /\ \E k \in Slots : collided[ArrayOfSlot(k)][c] # distributions[ArrayOfSlot(k)][c]

\* C27: a simulation that new() built and nothing initialized has density 1
\* and velocity zero at every cell, before the first step and after each
\* phase of each step, for each of the constants.
C27_AtRest ==
    inits = 0 =>
        /\ ~panicked
        /\ density = [c \in Cells(dims) |-> One]
        /\ velocity = [c \in Cells(dims) |-> Vec3_ZERO]

\* Two steps are done without an initialize, under constants that are not
\* the default ones, and the slots no longer hold what new() wrote.
C27_Witness ==
    /\ inits = 0 /\ Stepped /\ steps = 2
    /\ constants # Constants_default
    /\ SquareOf(constants.speed_of_sound) # Q(1, 3)
    /\ distributions # Lattice_default(dims)
    /\ density = [c \in Cells(dims) |-> One]

\* The cells of the loops of stream whose write for the slot k goes to the
\* cell t.
WritersOf(k, t) ==
    {i \in 1..Len(LoopCells(dims)) :
        Int3_wrap(Int3Add(LoopCells(dims)[i], direction(k)), dims).v = t}

\* A lattice that holds NaN in every slot of every cell.
BlankLattice == [a \in Arrays |-> [c \in Cells(dims) |-> NaN]]

\* C28: for each slot, (cell + direction).wrap() sends the cells onto the
\* cells one to one, so stream writes every cell of every slot exactly once;
\* what stream leaves in the distributions is what it would leave in any
\* other lattice, so no value the distributions held before survives.
C28_Overwrites ==
    Streamed =>
        /\ \A k \in Slots : \A t \in Cells(dims) : Cardinality(WritersOf(k, t)) = 1
        /\ \A lat \in {Lattice_default(dims), BlankLattice} :
              StreamLattice(lat, collided, dims) = distributions

\* The stream of a second step has run on the 3x2x1 grid, whose axes have
\* the sizes 3, 2 and 1, over distributions that were not the default ones.
C28_Witness ==
    /\ Streamed /\ steps = 2 /\ inits = 1
    /\ dims = <<3, 2, 1>>
    /\ distributions # collided
    /\ distributions # Lattice_default(dims)
    /\ \A k \in Slots : \A c \in Cells(dims) : IsFinite(distributions[ArrayOfSlot(k)][c])

\* The policy p has been called by the initialize this step is.
InitializedWith(p) ==
    inits' = inits + 1 /\ ~panicked' /\ calls' = InitializeCalls(p, dims)

C29_Step ==
    \A p \in Policies :
        InitializedWith(p) =>
            LET fresh == Initialized(Fresh(dims, <<>>), p, dims)
            IN  /\ distributions' = fresh.distributions
                /\ density' = fresh.density
                /\ velocity' = fresh.velocity
                /\ particles' = particles
                /\ constants' = constants

SingleStepping == frame # NoFrame /\ frame.s_handled

\* The simulation a restart with the policy p leaves.
Restarted(p) ==
    LET fresh == Initialized(Fresh(dims, HostParticles(dims)), p, dims)
    IN  /\ distributions' = fresh.distributions
        /\ density' = fresh.density
        /\ velocity' = fresh.velocity
        /\ particles' = fresh.particles

\* While single stepping at most one step() has returned; before it the
\* controls are as the S key left them, after it the simulation is paused.
\* No step() runs with a restart still requested.
C30_State ==
    /\ SingleStepping =>
          /\ frame.stepped <= 1
          /\ frame.stepped = 0 => controls.single_step /\ ~controls.paused
          /\ frame.stepped = 1 =>
                controls.paused /\ ~controls.single_step /\ frame.at = "idle"
    /\ (frame # NoFrame /\ frame.at = "step") => ~controls.restart_requested

\* A paused frame begins no step(); a frame whose timer finished begins
\* one; the phases run inside a step() only; a frame that clears
\* restart_requested leaves a simulation just built and initialized with a
\* policy of the host, before any phase of the step.
C30_Frame ==
    frame # NoFrame =>
        /\ (controls.paused /\ frame.at = "idle") => (frame'.at = "idle" /\ steps' <= steps)
        /\ frame'.tick # frame.tick => (~controls.paused /\ frame'.at = "step")
        /\ (trace' # trace /\ trace' # <<>>) =>
              (frame.at = "step" /\ ~controls.restart_requested)
        /\ (frame.at = "idle" /\ frame'.at = "step") =>
              (~controls'.restart_requested /\ Idle')
        /\ (controls.restart_requested /\ ~controls'.restart_requested) =>
              /\ steps' = 0
              /\ trace' = <<>>
              /\ collided' = NoLattice
              /\ \E p \in HostPolicies : Restarted(p)

\* C30: in the host loop, once the S key has been handled and no further key
\* is pressed, one step() runs, at the next frame whose timer finishes; its
\* return sets paused and clears single_step, and no further step() runs
\* while no key is pressed; a requested restart is served before the step of
\* the same frame and clears restart_requested.
C30_SingleStep == []C30_State /\ [][C30_Frame]_vars

\* The S key was handled together with a restart request, the restart was
\* served and one step() has run and returned: the simulation is paused.
C30_Witness ==
    /\ SingleStepping
    /\ frame.stepped = 1
    /\ frame.at = "idle"
    /\ steps = 1
    /\ inits = 1
    /\ controls.paused
    /\ ~controls.single_step
    /\ ~controls.restart_requested
====
